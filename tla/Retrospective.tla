---------------------------- MODULE Retrospective ----------------------------
(* The postmortem of one alert: it is generated in several steps, saved by    *)
(* goroutines after the reply, and corrected by people.                       *)
(*                                                                            *)
(* A text is the set of its sources: "rules", "diagnosis" (cached, or the     *)
(* model's), "fixes" (the sentence on executed fixes), "insights", or the     *)
(* author of a correction. Lessons and action items go the way of the         *)
(* resolution. The alert starts at time 2.                                    *)
EXTENDS Naturals, Sequences, FiniteSets

CONSTANTS Generators,      \* handlers and tool calls that generate the report
          Authors,         \* people who correct it
          NoReport,
          RelatedTimes,    \* start times of other alerts
          FixTimes,        \* times of executed actions
          MaxGenerations,  \* bound on generations
          MaxCorrections,  \* bound on corrections
          MaxChanges,      \* bound on changes of the related alerts
          MaxFixes,        \* bound on executed actions
          MaxFaults        \* bound on failing writes

VARIABLES
  gen,       \* each generator: step, report
  edit,      \* each author: whether reading, the row read, the fields to change
  row,       \* postmortem_reports
  knowledge, \* incident_knowledge, by creation: number of the report
  entries,   \* which of fault_report_vectors and postmortem_resource_links have a row
  saves,     \* goroutines still to write: [to, report]
  related,   \* start times of the related active alerts
  audit,     \* execution records: [at, success]
  begun,     \* generations begun
  corrected, \* the author whose correction of a field must be in the row
  changes, corrections, failed, crossed
vars == <<gen, edit, row, knowledge, entries, saves, related, audit, begun,
          corrected, changes, corrections, failed, crossed>>

Fields == {"root_cause", "resolution"}
NoOne == "nobody"
Texts == SUBSET ({"rules", "diagnosis", "fixes", "insights"} \cup Authors)
EventKinds == {"alert_triggered", "related_alert", "remediation_executed", "remediation_proposed"}
Report == [n: Nat, timeline: Seq([kind: EventKinds, at: Nat]), by: Authors \cup {NoOne},
           ai: Texts, final: [Fields -> Texts]]
Idle == [step |-> "idle", report |-> NoReport]
NotEditing == [base |-> NoReport, fields |-> {}]

Init ==
  /\ gen = [g \in Generators |-> Idle] /\ edit = [a \in Authors |-> NotEditing]
  /\ row = NoReport /\ knowledge = <<>> /\ entries = {} /\ saves = {}
  /\ related = {} /\ audit = {} /\ begun = 0
  /\ corrected = [f \in Fields |-> NoOne] /\ changes = 0 /\ corrections = 0 /\ failed = 0 /\ crossed = FALSE

Busy == saves # {} \/ \E g \in Generators : gen[g].step # "idle"

-----------------------------------------------------------------------------
(* Around the service. *)
AlertsChange == \* another alert of the namespace and node fires or resolves
  /\ changes < MaxChanges
  /\ \E t \in RelatedTimes : related' = IF t \in related THEN related \ {t} ELSE related \cup {t}
  /\ changes' = changes + 1
  /\ UNCHANGED <<gen, edit, row, knowledge, entries, saves, audit, begun,
                 corrected, corrections, failed, crossed>>

Execute == \* the executor records an action for the alert
  /\ Cardinality(audit) < MaxFixes
  /\ \E at \in FixTimes, success \in BOOLEAN : audit' = audit \cup {[at |-> at, success |-> success]}
  /\ UNCHANGED <<gen, edit, row, knowledge, entries, saves, related, begun,
                 corrected, changes, corrections, failed, crossed>>

-----------------------------------------------------------------------------
(* A generation. *)
IsSorted(s) == \A i \in 2..Len(s) : s[i - 1].at <= s[i].at
SortedByTime(S) == \* events of one time in any order: the sort is not stable
  {s \in [1..Cardinality(S) -> S] : {s[i] : i \in DOMAIN s} = S /\ IsSorted(s)}
Event(kind, at) == [kind |-> kind, at |-> at]
Unsorted(S) == {s \in [1..Cardinality(S) -> S] : {s[i] : i \in DOMAIN s} = S}

(* The texts of the rules are made of the alert and its causal chain.         *)
BuildTimeline(g) ==
  /\ gen[g].step = "idle" /\ begun < MaxGenerations
  /\ begun' = begun + 1 /\ crossed' = (crossed \/ Busy)
  /\ \E timeline \in SortedByTime({Event("alert_triggered", 2)}
                                  \cup {Event("related_alert", t) : t \in related}) :
       gen' = [gen EXCEPT ![g] =
         [step |-> "diagnosis",
          report |-> [n |-> begun + 1, timeline |-> timeline, by |-> NoOne,
                      ai |-> {"rules"}, final |-> [f \in Fields |-> {"rules"}]]]]
  /\ UNCHANGED <<edit, row, knowledge, entries, saves, related, audit,
                 corrected, changes, corrections, failed>>

(* A cached diagnosis with a root cause, or else the model's answer, replaces *)
(* the root cause, and the resolution if it proposes one.                     *)
Replace(final, fields, source) == [f \in Fields |-> IF f \in fields THEN {source} ELSE final[f]]
EnrichFromDiagnosis(g) ==
  /\ gen[g].step = "diagnosis"
  /\ \E fields \in {{}, {"root_cause"}, {"root_cause", "resolution"}} :
       gen' = [gen EXCEPT ![g].step = "executions",
                          ![g].report.final = Replace(@, fields, "diagnosis")]
  /\ UNCHANGED <<edit, row, knowledge, entries, saves, related, audit, begun,
                 corrected, changes, corrections, failed, crossed>>

EventsOf(s) == {s[i] : i \in DOMAIN s}
Recorded == {Event(IF r.success THEN "remediation_executed" ELSE "remediation_proposed", r.at) :
             r \in audit}
AppendRecords(s) == {s \o t : t \in Unsorted(Recorded)}
SortWithRecords(s) == SortedByTime(EventsOf(s) \cup Recorded)
EnrichFromExecutions(g) == \* without the log the report goes on without it
  /\ gen[g].step = "executions"
  /\ \/ \E timeline \in SortWithRecords(gen[g].report.timeline) :
          gen' = [gen EXCEPT
            ![g].step = "insights", ![g].report.timeline = timeline,
            ![g].report.final["resolution"] =
              @ \cup (IF \E r \in audit : r.success THEN {"fixes"} ELSE {})]
     \/ gen' = [gen EXCEPT ![g].step = "insights"]
  /\ UNCHANGED <<edit, row, knowledge, entries, saves, related, audit, begun,
                 corrected, changes, corrections, failed, crossed>>

Lookups(report) == {[to |-> t, report |-> report] : t \in {"knowledge", "vector", "link"}}
SaveAll(report) == {[to |-> "row", report |-> report]} \cup Lookups(report)
SaveFirst(report) == {[to |-> "row", report |-> report]}

(* The model may rewrite the resolution; the report is the reply, and a       *)
(* goroutine saves it.                                                        *)
EnrichWithLLM(g) ==
  /\ gen[g].step = "insights"
  /\ \E fields \in SUBSET {"resolution"} :
       saves' = saves \cup SaveFirst([gen[g].report EXCEPT !.final = Replace(@, fields, "insights")])
  /\ gen' = [gen EXCEPT ![g] = Idle]
  /\ UNCHANGED <<edit, row, knowledge, entries, related, audit, begun,
                 corrected, changes, corrections, failed, crossed>>

-----------------------------------------------------------------------------
(* The goroutines. *)
KeepFirst(report) == IF row = NoReport THEN [report EXCEPT !.by = NoOne] ELSE row
Upserted(report) == [report EXCEPT !.by = IF row = NoReport THEN NoOne ELSE row.by]
(* The upsert replaces the report and keeps updated_by. Whether it succeeds   *)
(* or not, three more goroutines follow.                                      *)
SavePostmortem(j) ==
  /\ j \in saves /\ j.to = "row"
  /\ saves' = (saves \ {j}) \cup Lookups(j.report)
  /\ \/ /\ row' = Upserted(j.report)
        /\ corrected' = [f \in Fields |-> NoOne] /\ UNCHANGED failed
     \/ failed < MaxFaults /\ failed' = failed + 1 /\ UNCHANGED <<row, corrected>>
  /\ UNCHANGED <<gen, edit, knowledge, entries, related, audit, begun, changes, corrections, crossed>>

ExtractKnowledge(j) == \* one more row for each generation
  /\ j \in saves /\ j.to = "knowledge" /\ saves' = saves \ {j}
  /\ \/ knowledge' = Append(knowledge, j.report.n) /\ UNCHANGED failed
     \/ failed < MaxFaults /\ failed' = failed + 1 /\ UNCHANGED knowledge
  /\ UNCHANGED <<gen, edit, row, entries, related, audit, begun, corrected, changes, corrections, crossed>>

SaveFaultReportVector(j) == \* its key is the report's new ID
  /\ j \in saves /\ j.to = "vector" /\ saves' = saves \ {j}
  /\ \/ entries' = entries \cup {"vector"} /\ UNCHANGED failed
     \/ failed < MaxFaults /\ failed' = failed + 1 /\ UNCHANGED entries
  /\ UNCHANGED <<gen, edit, row, knowledge, related, audit, begun, corrected, changes, corrections, crossed>>

SaveResourceLinks(j) == \* without a UID there is none
  /\ j \in saves /\ j.to = "link" /\ saves' = saves \ {j}
  /\ \/ entries' = entries \cup {"link"} /\ UNCHANGED failed
     \/ UNCHANGED <<entries, failed>>
     \/ failed < MaxFaults /\ failed' = failed + 1 /\ UNCHANGED entries
  /\ UNCHANGED <<gen, edit, row, knowledge, related, audit, begun, corrected, changes, corrections, crossed>>

-----------------------------------------------------------------------------
(* A correction reads the row, changes some final texts and saves the row.    *)
ReadForUpdate(a) ==
  /\ edit[a].base = NoReport /\ row # NoReport /\ corrections < MaxCorrections
  /\ \E fields \in {{f} : f \in Fields} :
       edit' = [edit EXCEPT ![a] = [base |-> row, fields |-> fields]]
  /\ corrections' = corrections + 1
  /\ UNCHANGED <<gen, row, knowledge, entries, saves, related, audit, begun,
                 corrected, changes, failed, crossed>>

AllFields(fields) == Fields
Given(fields) == fields
SaveUpdate(a) ==
  /\ edit[a].base # NoReport
  /\ edit' = [edit EXCEPT ![a] = NotEditing]
  /\ LET base == edit[a].base
         given == edit[a].fields
     IN \/ /\ row' = [base EXCEPT !.final = Replace(@, Given(given), a), !.by = a]
           /\ corrected' = [f \in Fields |-> IF f \in given THEN a
                                             ELSE IF row = base THEN corrected[f] ELSE NoOne]
           /\ UNCHANGED failed
        \/ failed < MaxFaults /\ failed' = failed + 1 /\ UNCHANGED <<row, corrected>>
  /\ UNCHANGED <<gen, knowledge, entries, saves, related, audit, begun, changes, corrections, crossed>>

Save(j) == SavePostmortem(j) \/ ExtractKnowledge(j) \/ SaveFaultReportVector(j) \/ SaveResourceLinks(j)
Generate(g) == BuildTimeline(g) \/ EnrichFromDiagnosis(g)
               \/ EnrichFromExecutions(g) \/ EnrichWithLLM(g)
Next ==
  \/ AlertsChange \/ Execute
  \/ (\E g \in Generators : Generate(g)) \/ (\E j \in saves : Save(j))
  \/ \E a \in Authors : ReadForUpdate(a) \/ SaveUpdate(a)
Spec == Init /\ [][Next]_vars

-----------------------------------------------------------------------------
(* An acknowledged correction of a field stays in the report until the report *)
(* is generated again, the field is corrected again, or another correction    *)
(* that read the report before it is saved (retrospective_service.go:686-725).*)
CorrectionKept ==
  \A f \in Fields : corrected[f] # NoOne => row.final[f] = {corrected[f]}

(* The timeline of a stored report is in the order of time, the recorded      *)
(* fixes of the executor included (retrospective_service.go:94, 1244).        *)
TimelineInOrder ==
  row # NoReport => IsSorted(row.timeline) /\ Event("alert_triggered", 2) \in EventsOf(row.timeline)

(* Whoever finds an incident by its knowledge, its vector or its resource     *)
(* finds its report, unless a write failed (retrospective_service.go:652-674).*)
FoundHasReport ==
  failed = 0 /\ (knowledge # <<>> \/ entries # {}) => row # NoReport

(* When nothing is being saved and no write failed, the report is that of the *)
(* newest knowledge, unless two generations or a correction overlapped        *)
(* (retrospective_service.go:641, 671, 720).                                  *)
NewestStored ==
  ~Busy /\ failed = 0 /\ ~crossed /\ begun > 0
  /\ (\A a \in Authors : edit[a].base = NoReport \/ edit[a].base.n = begun)
  /\ row.by = NoOne
  => row.n = begun /\ knowledge[Len(knowledge)] = begun

(* models/retrospective/retrospective.go:48 says of ai_generated that it is   *)
(* the model's original output.                                               *)
AIHoldsModelOutput ==
  row # NoReport => ("insights" \in row.final["resolution"] => "insights" \in row.ai)
=============================================================================
