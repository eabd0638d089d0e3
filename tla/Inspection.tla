----------------------------- MODULE Inspection -----------------------------
(* The inspection service (services/inspection): the rules an engine holds,  *)
(* their concurrent execution, the report made of their findings, its copy   *)
(* in memory and its row in the database, and the comparison of two reports. *)
EXTENDS Naturals, FiniteSets, FiniteSetsExt

CONSTANTS
  Names,        \* rule names a configuration may use
  Things,       \* resources the query of a rule may return
  Callers,      \* POST /inspection/execute requests; the scheduler is "cron"
  Readers,      \* GET /inspection/report requests
  Threshold,    \* check.threshold of the min_rows rules
  NoReport,
  MaxReports, MaxFaults, MaxChanges, MaxRestarts   \* bounds

VARIABLES
  rules,     \* the engine's rules: name -> where its definition came from
  world,     \* what the query of each rule returns now
  run,       \* the inspections: one per caller
  latest,    \* latestReport
  saved,     \* the rows of inspection_reports
  reader,    \* GetLatestReport calls
  reports,   \* every report made, by number: its issues, the rules that did not
             \* answer, the reports complete before it, and whether it is so
  faults, changes, restarts

vars == <<rules, world, run, latest, saved, reader, reports, faults, changes, restarts>>

Runs == Callers \cup {"cron"}
Idle == [stage |-> "idle", todo |-> {}, issues |-> {}, failed |-> {}, unheard |-> {}, report |-> 0]
Waiting == [stage |-> "idle", row |-> NoReport, past |-> {}]

\* RegisterRule keeps the first definition of a name: files, then the built-in
\* rules, then the enabled rows of the database.
Registered(byFile, builtIn, inTable) ==
  [n \in byFile \cup builtIn \cup inTable |->
     IF n \in byFile THEN "file" ELSE IF n \in builtIn THEN "code" ELSE "table"]

\* The check of a min_rows rule; the rules in code report every row they match.
Check(n, rows) ==
  IF rules[n] # "code" /\ Cardinality(rows) < Threshold THEN {} ELSE {n} \X rows

Init ==
  /\ \E byFile, builtIn, inTable \in SUBSET Names :
       rules = Registered(byFile, builtIn, inTable)
  /\ DOMAIN rules # {}
  /\ world = [n \in Names |-> {}]
  /\ run = [r \in Runs |-> Idle]
  /\ latest = NoReport /\ saved = {} /\ reports = <<>>
  /\ reader = [h \in Readers |-> Waiting]
  /\ faults = 0 /\ changes = 0 /\ restarts = 0

Change(n) ==
  /\ changes < MaxChanges
  /\ \E rows \in SUBSET Things : rows # world[n] /\ world' = [world EXCEPT ![n] = rows]
  /\ changes' = changes + 1
  /\ UNCHANGED <<rules, run, latest, saved, reader, reports, faults, restarts>>

\* A request, or a tick of the scheduler, which skips while its last run goes on.
Begin(r) ==
  /\ run[r].stage = "idle" /\ Cardinality(DOMAIN reports) < MaxReports
  /\ run' = [run EXCEPT ![r] = [Idle EXCEPT !.stage = "rules", !.todo = DOMAIN rules]]
  /\ UNCHANGED <<rules, world, latest, saved, reader, reports, faults, changes, restarts>>

\* One goroutine of ExecuteAll.
Found(r, n) ==
  /\ run[r].stage = "rules" /\ n \in run[r].todo
  /\ run' = [run EXCEPT ![r].todo = @ \ {n}, ![r].issues = @ \cup Check(n, world[n])]
  /\ UNCHANGED <<rules, world, latest, saved, reader, reports, faults, changes, restarts>>

\* The query or the plugin of a rule fails. A rule of the table only logs it.
Fails(r, n) ==
  /\ run[r].stage = "rules" /\ n \in run[r].todo /\ faults < MaxFaults
  /\ run' = [run EXCEPT ![r].todo = @ \ {n}, ![r].unheard = @ \cup {n},
                        ![r].failed = IF rules[n] = "table" THEN @ ELSE @ \cup {n}]
  /\ faults' = faults + 1
  /\ UNCHANGED <<rules, world, latest, saved, reader, reports, changes, restarts>>

\* ExecuteAll returns: one failed rule discards what the others found.
PartialReport(r) == TRUE
Reportable(r) == run[r].failed = {}

\* GenerateReport gives the report its time ...
Generate(r) ==
  /\ run[r].stage = "rules" /\ run[r].todo = {} /\ Reportable(r)
  /\ Cardinality(DOMAIN reports) < MaxReports
  /\ LET k == Cardinality(DOMAIN reports) + 1 IN
     /\ reports' = [i \in 1..k |->
          IF i = k THEN [issues |-> run[r].issues, unheard |-> run[r].unheard,
                         past |-> {j \in DOMAIN reports : reports[j].ended}, ended |-> FALSE]
          ELSE reports[i]]
     /\ run' = [run EXCEPT ![r] = [@ EXCEPT !.stage = "latest", !.report = k]]
  /\ UNCHANGED <<rules, world, latest, saved, reader, faults, changes, restarts>>

\* ... makes it the latest one ...
Publish(r) ==
  /\ run[r].stage = "latest"
  /\ latest' = [number |-> run[r].report, past |-> reports[run[r].report].past]
  /\ run' = [run EXCEPT ![r].stage = "persist"]
  /\ UNCHANGED <<rules, world, saved, reader, reports, faults, changes, restarts>>

\* ... and writes its row, whose error is dropped.
Persist(r) ==
  /\ run[r].stage = "persist"
  /\ \/ /\ saved' = saved \cup {run[r].report}
        /\ reports' = [reports EXCEPT ![run[r].report].ended = TRUE]
        /\ UNCHANGED faults
     \/ faults < MaxFaults /\ faults' = faults + 1 /\ UNCHANGED <<saved, reports>>
  /\ run' = [run EXCEPT ![r] = Idle]
  /\ UNCHANGED <<rules, world, latest, reader, changes, restarts>>

Discard(r) ==
  /\ run[r].stage = "rules" /\ run[r].todo = {} /\ ~Reportable(r)
  /\ run' = [run EXCEPT ![r] = Idle]
  /\ UNCHANGED <<rules, world, latest, saved, reader, reports, faults, changes, restarts>>

\* The row GetLatestReport reads: order generated_at desc, first.
OldestRow == IF saved = {} THEN NoReport ELSE Min(saved)
NewestRow == IF saved = {} THEN NoReport ELSE Max(saved)

\* GetLatestReport with nothing in memory: it reads the row ...
ReadRow(h) ==
  /\ reader[h].stage = "idle" /\ latest = NoReport /\ NewestRow # NoReport
  /\ reader' = [reader EXCEPT ![h] = [stage |-> "read", row |-> NewestRow, past |-> saved]]
  /\ UNCHANGED <<rules, world, run, latest, saved, reports, faults, changes, restarts>>

\* ... and keeps it in memory, without looking at memory again.
KeepRow(h) ==
  /\ reader[h].stage = "read"
  /\ latest' = [number |-> reader[h].row, past |-> reader[h].past]
  /\ reader' = [reader EXCEPT ![h] = Waiting]
  /\ UNCHANGED <<rules, world, run, saved, reports, faults, changes, restarts>>

\* The process restarts: memory is lost, the rows are not.
Restart ==
  /\ restarts < MaxRestarts
  /\ run' = [r \in Runs |-> Idle] /\ latest' = NoReport
  /\ reader' = [h \in Readers |-> Waiting]
  /\ restarts' = restarts + 1
  /\ UNCHANGED <<rules, world, saved, reports, faults, changes>>

Next ==
  \/ \E n \in Names : Change(n)
  \/ \E r \in Runs : Begin(r) \/ Generate(r) \/ Publish(r) \/ Persist(r) \/ Discard(r)
  \/ \E r \in Runs, n \in Names : Found(r, n) \/ Fails(r, n)
  \/ \E h \in Readers : ReadRow(h) \/ KeepRow(h)
  \/ Restart

Spec == Init /\ [][Next]_vars

\* CompareReports(a, b): what b has and a has not, the reverse, and the trend.
Swapped(a, b) == reports[b].issues \ reports[a].issues
NewIssues(a, b) == reports[b].issues \ reports[a].issues
ResolvedIssues(a, b) == reports[a].issues \ reports[b].issues
Trend(a, b) ==
  LET new == Cardinality(NewIssues(a, b))
      resolved == Cardinality(ResolvedIssues(a, b))
  IN IF new > resolved THEN "worsening" ELSE IF new < resolved THEN "improving" ELSE "stable"

-----------------------------------------------------------------------------
\* A report lacks the answer of a rule only if that rule came from the table:
\* one failed rule of a file or of the code, whichever ran beside it, leaves the
\* run without a report (runInspection), so that the history never looks better
\* because a query did not answer. Rules of the table log their error instead.
ReportsAreWhole ==
  \A k \in DOMAIN reports : \A n \in reports[k].unheard : rules[n] = "table"

\* The report that is answered as the latest is not older than one that was
\* complete, row written, before the answer began to be made: by a request that
\* reads the table after a restart, or by an inspection (GetLatestReport and
\* GenerateReport share latestReport, not a lock over what leads to it).
LatestNotOlder ==
  latest # NoReport => \A k \in latest.past : k <= latest.number

\* The trend of a comparison agrees with the totals of the two reports: a later
\* report with more issues is worsening, with fewer improving (CompareReports
\* derives it from the differences, not from the totals).
TrendAgrees ==
  \A a, b \in saved :
    LET old == Cardinality(reports[a].issues)
        new == Cardinality(reports[b].issues)
    IN Trend(a, b) = IF new > old THEN "worsening" ELSE IF new < old THEN "improving" ELSE "stable"
=============================================================================
