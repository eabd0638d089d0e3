-------------------------- MODULE ExecutorControl ---------------------------
(***************************************************************************)
(* The executor seen as an instance of ChangeControl: the specs are the    *)
(* Pod templates of the Deployments, the stages the phases of a call.      *)
(***************************************************************************)
EXTENDS Executor

StageOf(x) ==
  CASE x.phase = "idle" -> "new"
    [] x.phase = "gate" -> "asked"
    [] x.phase \in {"snapshot", "apply"} -> "allowed"
    [] x.phase = "remember" -> IF x.result = "none" THEN "allowed" ELSE "over"
    [] x.phase \in {"record", "verify"} -> "made"
    [] x.phase \in {"pick", "restore"} -> "undoing"
    [] OTHER -> "over"

ObjectOf(x) == IF x.phase = "idle" THEN NoPlan ELSE x.plan.target

GroundsOf(x) ==
  IF x.phase = "idle" THEN {}
  ELSE {g \in {"person", "program"} :
          IF g = "person" THEN x.by # NoOne ELSE x.plan.confident}

Stages == [e \in Execs |-> StageOf(exec[e])]
Targets == [e \in Execs |-> ObjectOf(exec[e])]
Grounds == [e \in Execs |-> GroundsOf(exec[e])]
Priors == [e \in Execs |-> exec[e].snap]
Templates == [d \in Deployments |-> dep[d].tmpl]

Control == INSTANCE ChangeControl WITH
  Calls <- Execs, Objects <- Deployments, Specs <- Template,
  NoSpec <- NoTemplate, NoObject <- NoPlan, MaxEdits <- MaxOutsideEdits,
  mode <- autoMode, stage <- Stages, object <- Targets, grounds <- Grounds,
  prior <- Priors, spec <- Templates, proven <- rolled

\* Every step of the executor, of its verifications and of the cluster is a
\* step of ChangeControl or leaves it alone: a Deployment is changed by a call
\* at most once and with authority, and put back at most once, whatever replies
\* are lost, whoever else writes, and wherever the process ends.
ChangesControlled == Control!Spec
=============================================================================
