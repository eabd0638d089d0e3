----------------------------- MODULE RolloutUndo ----------------------------
(* rollout_undo of the executor (rolloutUndoDeployment): the Deployment and   *)
(* its ReplicaSets are read in two calls, a revision is chosen, and its       *)
(* template is written back, while the Deployment controller goes on rolling  *)
(* out and others edit the Deployment.                                        *)
EXTENDS Naturals, FiniteSets, FiniteSetsExt, SequencesExt

CONSTANTS
  Templates,            \* Pod templates; each has at most one ReplicaSet
  Working,              \* those whose Pods become available
  Asked,                \* values of plan.Revision, 0 for the previous one
  MaxEdits, MaxUndos    \* bounds

VARIABLES
  template, version,    \* the Deployment: its template and resource version
  sets,                 \* ReplicaSets: template -> [revision, pods]
  order,                \* the ReplicaSets by name, the order of the List call
  undo,                 \* the call of rolloutUndoDeployment
  edits, undos

vars == <<template, version, sets, order, undo, edits, undos>>

Made == {t \in Templates : sets[t].revision > 0}
Highest == Max({0} \cup {sets[t].revision : t \in Templates})
Quiet == [stage |-> "idle", asked |-> 0, version |-> 0, settled |-> FALSE,
          previous |-> {}, chosen |-> {}]

Init ==
  /\ template \in Working /\ version = 1
  /\ sets = [t \in Templates |-> IF t = template THEN [revision |-> 1, pods |-> TRUE]
                                 ELSE [revision |-> 0, pods |-> FALSE]]
  /\ order \in SetToSeqs(Templates)
  /\ undo = Quiet /\ edits = 0 /\ undos = 0

-----------------------------------------------------------------------------
(* The Deployment controller.                                                *)
NewestSet ==
  /\ sets[template].revision < Highest \/ template \notin Made
  /\ sets' = [sets EXCEPT ![template].revision = Highest + 1]
  /\ UNCHANGED <<template, version, order, undo, edits, undos>>
ScaleUp ==
  /\ template \in Made /\ sets[template].revision = Highest /\ ~sets[template].pods
  /\ sets' = [sets EXCEPT ![template].pods = TRUE]
  /\ UNCHANGED <<template, version, order, undo, edits, undos>>
\* An old ReplicaSet keeps Pods until those of the new one are available; one
\* whose own Pods never became available is scaled down at once.
ScaleDown(t) ==
  /\ t # template /\ sets[t].pods
  /\ t \in Working => (template \in Working /\ sets[template].pods)
  /\ sets' = [sets EXCEPT ![t].pods = FALSE]
  /\ UNCHANGED <<template, version, order, undo, edits, undos>>
Edit(t) ==
  /\ edits < MaxEdits /\ edits' = edits + 1
  /\ t # template /\ template' = t /\ version' = version + 1
  /\ UNCHANGED <<sets, order, undo, undos>>

Settled == template \in Made /\ {t \in Templates : sets[t].pods} = {template}
               /\ sets[template].revision = Highest

-----------------------------------------------------------------------------
(* rolloutUndoDeployment.                                                    *)
ReadDeployment(n) ==
  /\ undo.stage = "idle" /\ undos < MaxUndos /\ undos' = undos + 1
  /\ undo' = [Quiet EXCEPT !.stage = "list", !.asked = n, !.version = version]
  /\ UNCHANGED <<template, version, sets, order, edits>>

\* The revision of the last ReplicaSet in the list that wants Pods.
Current ==
  LET wanting == {i \in DOMAIN order : sets[order[i]].revision > 0 /\ sets[order[i]].pods}
  IN IF wanting = {} THEN 0 ELSE sets[order[Max(wanting)]].revision
Lowest(ts) == {t \in ts : \A u \in ts : sets[t].revision <= sets[u].revision}
Greatest(ts) == {t \in ts : \A u \in ts : sets[u].revision <= sets[t].revision}
\* The revision that was asked for, or the greatest below the current one.
Target(n) ==
  IF n > 0 THEN {t \in Made : sets[t].revision = n}
  ELSE Greatest({t \in Made : sets[t].revision < Current})
\* History: the set whose revision is the one before the Deployment's own.
Before == IF template \in Made /\ sets[template].revision = Highest
          THEN {t \in Made \ {template} : \A u \in Made \ {template} :
                  sets[u].revision <= sets[t].revision}
          ELSE {}
ListSets ==
  /\ undo.stage = "list"
  /\ undo' = [undo EXCEPT !.stage = IF Target(undo.asked) = {} THEN "idle" ELSE "update",
       !.chosen = Target(undo.asked),
       !.settled = Settled /\ version = undo.version, !.previous = Before]
  /\ UNCHANGED <<template, version, sets, order, edits, undos>>
SameVersion == version = undo.version
Update ==
  /\ undo.stage = "update"
  /\ undo' = [undo EXCEPT !.stage = IF SameVersion THEN "undone" ELSE "idle"]
  /\ IF SameVersion THEN template' \in undo.chosen /\ version' = version + 1
                    ELSE UNCHANGED <<template, version>>
  /\ UNCHANGED <<sets, order, edits, undos>>
Answer ==
  /\ undo.stage = "undone" /\ undo' = Quiet
  /\ UNCHANGED <<template, version, sets, order, edits, undos>>

Next ==
  \/ NewestSet \/ ScaleUp
  \/ \E t \in Templates : ScaleDown(t) \/ Edit(t)
  \/ \E n \in Asked : ReadDeployment(n)
  \/ ListSets \/ Update \/ Answer

Spec == Init /\ [][Next]_vars

-----------------------------------------------------------------------------
\* When no rollout is going on, an undo without a revision writes the template
\* before the Deployment's own, however often either was rolled out or undone
\* before and in whatever order the ReplicaSets are listed.
UndoneToPrevious ==
  (undo.stage = "undone" /\ undo.asked = 0 /\ undo.settled) => undo.chosen = undo.previous

\* README.md says that revision 0 is the previous version, as in kubectl rollout
\* undo: the one before the Deployment's own, also while that one rolls out.
UndoIsPrevious ==
  (undo.stage = "undone" /\ undo.asked = 0 /\ undo.previous # {}) => undo.chosen = undo.previous
=============================================================================
