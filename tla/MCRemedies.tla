----------------------------- MODULE MCRemedies -----------------------------
(* From a diagnosis to a remedy and the report on it: diagnoses, the bridge *)
(* with its tools, two of the actions of the executor in detail, and        *)
(* retrospectives, for TLC.  part says which of them takes steps.           *)
EXTENDS MCRemediation, FiniteSets

CONSTANTS
  PendingAlerts,         \* what the tools are called for
  PodCalls, Replicas, Stateful, CoolDown, CleanAge, MaxTime, MaxPods, MaxMishaps,
  Templates, Working, Asked, MaxEdits, MaxUndos,
  NoReport,
  Corrections, Timelines,  \* two sizes of Retrospective
  Doubles, Restarts        \* and two of Diagnosis

VARIABLES part,
  minute, pods, cool, sweep, call, mishaps,
  template, version, sets, order, undo, edits, undos,
  gen, edit, row, knowledge, entries, saves, related, audit, begun, corrected,
  changes, corrections, failed, crossed,
  req, redis, pg, jobs, began, counter, totals, sync, fallback, mixed, lost, unread,
  crashes, syncs

podVars == <<minute, pods, cool, sweep, call, mishaps>>
diagnosisVars == <<req, redis, pg, jobs, began, counter, totals, sync, fallback, mixed,
                   lost, unread, crashes, syncs>>
undoVars == <<template, version, sets, order, undo, edits, undos>>
retroVars == <<gen, edit, row, knowledge, entries, saves, related, audit, begun,
               corrected, changes, corrections, failed, crossed>>

\* The tools alone, one call at a time, with approvals and verdicts.
Pending == INSTANCE Remediation WITH
  Alerts <- PendingAlerts, Pipeline <- FALSE, OverlappingCalls <- FALSE,
  Requests <- FALSE, MayStop <- FALSE, Faults <- FALSE
\* Restarts and deletions of the Pods of one controller.
Pods == INSTANCE PodRestart WITH Calls <- PodCalls, MaxFaults <- MaxMishaps
\* Undos of the rollouts of one Deployment.
Undos == INSTANCE RolloutUndo

\* Reports that are generated, corrected and generated again.
Reports(size) == INSTANCE Retrospective WITH
  Generators <- size.generators, Authors <- size.authors,
  MaxGenerations <- size.generations, MaxCorrections <- size.corrections,
  MaxChanges <- size.changes, MaxFixes <- size.fixes, MaxFaults <- size.faults,
  RelatedTimes <- size.related, FixTimes <- size.fixed
\* Requests to diagnose one alert, with the counters and their syncs.
Diagnoses(size) == INSTANCE Diagnosis WITH
  Requests <- size.requests, MaxConcurrent <- size.concurrent,
  MaxDiagnoses <- size.diagnoses, MaxFaults <- size.faults,
  MaxCrashes <- size.crashes, MaxSyncs <- size.syncs, Class <- size.class,
  rows <- totals

\* The variables of a part that takes no steps.
PodIdle ==
  /\ minute = 0 /\ pods = 0 /\ cool = 0 /\ sweep = 0 /\ call = 0 /\ mishaps = 0
UndoIdle ==
  /\ template = 0 /\ version = 0 /\ sets = 0 /\ order = 0 /\ undo = 0 /\ edits = 0
  /\ undos = 0
RetroIdle ==
  /\ gen = 0 /\ edit = 0 /\ row = 0 /\ knowledge = 0 /\ entries = 0 /\ saves = 0
  /\ related = 0 /\ audit = 0 /\ begun = 0 /\ corrected = 0 /\ changes = 0
  /\ corrections = 0 /\ failed = 0 /\ crossed = 0
DiagnosisIdle ==
  /\ req = 0 /\ redis = 0 /\ pg = 0 /\ jobs = 0 /\ began = 0 /\ counter = 0
  /\ totals = 0 /\ sync = 0 /\ fallback = 0 /\ mixed = 0 /\ lost = 0 /\ unread = 0
  /\ crashes = 0 /\ syncs = 0

ReportsAssumption(size) ==
  /\ NoReport \notin Reports(size)!Report
  /\ Reports(size)!NoOne \notin size.authors
  /\ size.related \cup size.fixed \subseteq Nat

ASSUME RemediesAssumption ==
  /\ {CoolDown, CleanAge, MaxTime, MaxPods} \subseteq Nat
  /\ IsFiniteSet(Templates) /\ Working \subseteq Templates
  /\ ReportsAssumption(Corrections) /\ ReportsAssumption(Timelines)
  /\ IsFiniteSet(Doubles.requests)

RemediesInit ==
  /\ part \in {"bridge", "pending", "pods", "undos", "corrected", "timeline",
              "twice", "totals"}
  /\ IF part = "pending" THEN Pending!Init ELSE Init
  /\ part \notin {"bridge", "pending"} => ~autoMode
  /\ IF part = "pods" THEN Pods!Init ELSE PodIdle
  /\ IF part = "undos" THEN Undos!Init ELSE UndoIdle
  /\ CASE part = "corrected" -> Reports(Corrections)!Init
       [] part = "timeline" -> Reports(Timelines)!Init
       [] OTHER -> RetroIdle
  /\ CASE part = "twice" -> Diagnoses(Doubles)!Init
       [] part = "totals" -> Diagnoses(Restarts)!Init
       [] OTHER -> DiagnosisIdle
RemediesNext ==
  /\ UNCHANGED part
  /\ \/ /\ part = "bridge" /\ Next
        /\ UNCHANGED <<podVars, undoVars, retroVars, diagnosisVars>>
     \/ /\ part = "pending" /\ Pending!Next
        /\ UNCHANGED <<podVars, undoVars, retroVars, diagnosisVars>>
     \/ /\ part = "pods" /\ Pods!Next
        /\ UNCHANGED <<vars, undoVars, retroVars, diagnosisVars>>
     \/ /\ part = "undos" /\ Undos!Next
        /\ UNCHANGED <<vars, podVars, retroVars, diagnosisVars>>
     \/ /\ part = "corrected" /\ Reports(Corrections)!Next
        /\ UNCHANGED <<vars, podVars, undoVars, diagnosisVars>>
     \/ /\ part = "timeline" /\ Reports(Timelines)!Next
        /\ UNCHANGED <<vars, podVars, undoVars, diagnosisVars>>
     \/ /\ part = "twice" /\ Diagnoses(Doubles)!Next
        /\ UNCHANGED <<vars, podVars, undoVars, retroVars>>
     \/ /\ part = "totals" /\ Diagnoses(Restarts)!Next
        /\ UNCHANGED <<vars, podVars, undoVars, retroVars>>
RemediesSpec ==
  RemediesInit /\ [][RemediesNext]_<<part, vars, podVars, undoVars, retroVars, diagnosisVars>>

\* Tools called one after the other leave one pending plan per alert and action.
OnePlanPending == part = "pending" => Pending!OnePendingPlan
\* Two restarts of a Pod's name are a cool-down apart (executor.go:425), and a
\* restart is verified only by a Pod other than the one it removed (verify.go:231).
RestartsSafe == part = "pods" => Pods!RestartsSpaced /\ Pods!VerifiedByAnother
\* An undo between rollouts writes the template before the current one.
UndoneToPrevious == part = "undos" => Undos!UndoneToPrevious
\* A correction stays in a report until the report is generated, or the field
\* corrected, again; the stored report is that of the newest generation, what the
\* search for earlier incidents finds has a report, and its timeline is in the
\* order of time (retrospective_service.go:94, 641-725, 1244).
ReportsSound ==
  /\ part = "corrected" =>
       /\ Reports(Corrections)!CorrectionKept
       /\ Reports(Corrections)!NewestStored
       /\ Reports(Corrections)!FoundHasReport
  /\ part = "timeline" => Reports(Timelines)!TimelineInOrder
\* Redis and PostgreSQL end up with the same, newest result of a diagnosis, the
\* collector's goroutines find what a serial collection would find, and each
\* diagnosis is counted once, for the path that made it (redis_storage.go:306,
\* context_collector.go:126, engine.go:180-240).
DiagnosesSound ==
  part = "twice" =>
    /\ Diagnoses(Doubles)!StoresAgree
    /\ Diagnoses(Doubles)!SameAsSerial
    /\ Diagnoses(Doubles)!CountedOnce
\* The stored totals never fall, whatever restarts happen.
TotalsNeverFall ==
  [][part = "totals" /\ ~unread' =>
       \A k \in Diagnoses(Restarts)!Keys : totals'[k] >= totals[k]]_totals

-----------------------------------------------------------------------------
(* Sizes for TLC.                                                            *)
\* Two authors; a report that is generated twice.
TwoAuthors ==
  [generators |-> {"g"}, authors |-> {"ann", "bob"}, generations |-> 2, corrections |-> 2,
   changes |-> 0, fixes |-> 0, faults |-> 0, related |-> {}, fixed |-> {}]
\* Related alerts after the alert, an executed action at its start.
OneReport ==
  [generators |-> {"g"}, authors |-> {"ann"}, generations |-> 1, corrections |-> 1,
   changes |-> 1, fixes |-> 1, faults |-> 1, related |-> {3}, fixed |-> {2}]
TwoRequests ==
  [requests |-> {1, 2}, concurrent |-> 1, diagnoses |-> 2, faults |-> 1, crashes |-> 0,
   syncs |-> 0, class |-> "pending"]
OneRestart ==
  [requests |-> {1}, concurrent |-> 1, diagnoses |-> 2, faults |-> 0, crashes |-> 1,
   syncs |-> 2, class |-> "cpu"]
=============================================================================
