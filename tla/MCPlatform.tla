----------------------------- MODULE MCPlatform -----------------------------
(* The graph and what is asked of it, and what the server consists of beside *)
(* it: inspections, metrics, logins, the command line client, conversations, *)
(* the start and the end of the process, for TLC.  part says which module    *)
(* takes steps.                                                              *)
EXTENDS MCGraph, Sequences, FiniteSets

CONSTANTS
  RuleNames, Things, Starters, Readers, Threshold, MaxReports, MaxRunFaults,
  MaxRuleChanges, MaxRestarts,
  Attempts, PerMinute, Enough, Minute, Quarter, LoginTime, MaxLogins, MaxLoginFaults,
  Servers, Procs, TokenLife, TokenTime, MaxRuns, MaxUpsets,
  Options, MaxOutages,
  Objects, Templates, Configured, EntryLife, CleanWindow, MetricTime, MaxAsks, MaxBreaks,
  Messages, Records, Consumers, LabelWorkers, BizRoom, MaxInformed,
  Sessions, Tabs, MaxEvents,
  NoReport, NoSession

VARIABLES
  rules, state, run, latest, saved, reader, reports, runFaults, ruleChanges, restarts,
  now, address, failures, lock, attempt, counted, inARow, overtaken, limiterFaults,
  clock, file, proc, serial, tokens, cliCrossed, runs, upsets,
  wanted, phase, open, made, hollow, active, stops, told, fate, outages,
  sample, since, query, kept, answer, minutes, asks, breaks,
  main, handler, signalled, listening, informers, sending, missed, noticed, taken, consumer,
  committed, biz, skipped, publisher, labels, graphOpen,
  memory, copies, rowOf, fresh, archived, toDelete, tab, questions, events, deleted,
  forgotten, emptied

inspectVars == <<rules, state, run, latest, saved, reader, reports, runFaults,
                 ruleChanges, restarts>>
loginVars == <<now, address, failures, lock, attempt, counted, inARow, overtaken,
               limiterFaults>>
cliVars == <<clock, file, proc, serial, tokens, cliCrossed, runs, upsets>>
startVars == <<wanted, phase, open, made, hollow, active, stops, told, fate, outages>>
metricVars == <<sample, since, query, kept, answer, minutes, asks, breaks>>
stopVars == <<main, handler, signalled, listening, informers, sending, missed, noticed, taken,
              consumer, committed, biz, skipped, publisher, labels, graphOpen>>
chatVars == <<memory, copies, rowOf, fresh, archived, toDelete, tab, questions, events,
              deleted, forgotten, emptied>>

Inspect == INSTANCE Inspection WITH
  Names <- RuleNames, Callers <- Starters, MaxFaults <- MaxRunFaults, MaxChanges <- MaxRuleChanges,
  world <- state, faults <- runFaults, changes <- ruleChanges
Logins == INSTANCE LoginLimiter WITH
  MaxTime <- LoginTime, MaxCalls <- MaxLogins, MaxFaults <- MaxLoginFaults,
  faults <- limiterFaults
Client == INSTANCE CliTokens WITH
  Life <- TokenLife, MaxTime <- TokenTime, MaxFaults <- MaxUpsets, saved <- tokens, crossed <- cliCrossed
Server == INSTANCE Startup WITH MaxFaults <- MaxOutages
Metrics == INSTANCE MetricsQuery WITH
  Kinds <- Templates, Life <- EntryLife,
  MaxTime <- MetricTime, MaxCalls <- MaxAsks, MaxFaults <- MaxBreaks
Stop == INSTANCE Shutdown WITH
  MaxEvents <- MaxInformed, seen <- noticed
Chat == INSTANCE ChatSession WITH
  jobs <- toDelete,
  row <- rowOf, asks <- questions, lost <- forgotten

\* Names are told from what else a placeholder may be filled with; limits and
\* times are counts; a configuration and the answer of a query are finite.
ASSUME PlatformAssumption ==
  /\ \A k \in DOMAIN Templates : Templates[k] # <<>> /\ Templates[k] \in Seq(Seq({1, 2}))
  /\ "Pod" \in DOMAIN Templates
  /\ Objects \cap {"namespace", "", "?", "+"} = {}
  /\ Configured \in BOOLEAN
  /\ EntryLife \in Nat /\ CleanWindow \in Nat \ {0}
  /\ LabelWorkers # {}
  /\ TokenLife \in Nat /\ LoginTime \in Nat /\ Minute \in Nat \ {0} /\ Quarter \in Nat
  /\ PerMinute \in Nat /\ Enough \in Nat \ {0}
  /\ IsFiniteSet(RuleNames) /\ IsFiniteSet(Things)

platformVars == <<inspectVars, loginVars, cliVars, startVars, metricVars,
                  stopVars, chatVars>>
\* What the code fills the templates of its metrics with, and the calls of the traces.
PodAndNode == [Pod |-> << <<1, 2>>, <<1, 2, 1, 2>> >>, Node |-> << <<2>>, <<2, 2>> >>]
ShopCallsCart == {<<"shop", "cart">>}

Parts == GraphParts \cup
  {"inspect", "logins", "client", "server", "metrics", "stop", "chat"}
InspectIdle ==
  /\ rules = 0 /\ state = 0 /\ run = 0 /\ latest = 0 /\ saved = 0 /\ reader = 0
  /\ reports = 0 /\ runFaults = 0 /\ ruleChanges = 0 /\ restarts = 0
LoginIdle ==
  /\ now = 0 /\ address = 0 /\ failures = 0 /\ lock = 0 /\ attempt = 0 /\ counted = 0
  /\ inARow = 0 /\ overtaken = 0 /\ limiterFaults = 0
CliIdle ==
  /\ clock = 0 /\ file = 0 /\ proc = 0 /\ serial = 0 /\ tokens = 0 /\ cliCrossed = 0
  /\ runs = 0 /\ upsets = 0
StartIdle ==
  /\ wanted = 0 /\ phase = 0 /\ open = 0 /\ made = 0 /\ hollow = 0 /\ active = 0
  /\ stops = 0 /\ told = 0 /\ fate = 0 /\ outages = 0
MetricIdle ==
  /\ sample = 0 /\ since = 0 /\ query = 0 /\ kept = 0 /\ answer = 0 /\ minutes = 0
  /\ asks = 0 /\ breaks = 0
StopIdle ==
  /\ main = 0 /\ handler = 0 /\ signalled = 0 /\ listening = 0 /\ informers = 0
  /\ sending = 0 /\ missed = 0 /\ noticed = 0 /\ taken = 0 /\ consumer = 0
  /\ committed = 0 /\ biz = 0 /\ skipped = 0 /\ publisher = 0 /\ labels = 0
  /\ graphOpen = 0
ChatIdle ==
  /\ memory = 0 /\ copies = 0 /\ rowOf = 0 /\ fresh = 0 /\ archived = 0 /\ toDelete = 0
  /\ tab = 0 /\ questions = 0 /\ events = 0 /\ deleted = 0 /\ forgotten = 0
  /\ emptied = 0

Init ==
  /\ part \in Parts
  /\ GraphInit
  /\ IF part = "inspect" THEN Inspect!Init ELSE InspectIdle
  /\ IF part = "logins" THEN Logins!Init ELSE LoginIdle
  /\ IF part = "client" THEN Client!Init ELSE CliIdle
  /\ IF part = "server" THEN Server!Init ELSE StartIdle
  /\ IF part = "metrics" THEN Metrics!Init ELSE MetricIdle
  /\ IF part = "stop" THEN Stop!Init ELSE StopIdle
  /\ IF part = "chat" THEN Chat!Init ELSE ChatIdle
PlatformNext ==
  \/ /\ part = "inspect" /\ Inspect!Next
     /\ UNCHANGED <<loginVars, cliVars, startVars, metricVars, stopVars, chatVars>>
  \/ /\ part = "logins" /\ Logins!Next
     /\ UNCHANGED <<inspectVars, cliVars, startVars, metricVars, stopVars, chatVars>>
  \/ /\ part = "client" /\ Client!Next
     /\ UNCHANGED <<inspectVars, loginVars, startVars, metricVars, stopVars, chatVars>>
  \/ /\ part = "server" /\ Server!Next
     /\ UNCHANGED <<inspectVars, loginVars, cliVars, metricVars, stopVars, chatVars>>
  \/ /\ part = "metrics" /\ Metrics!Next
     /\ UNCHANGED <<inspectVars, loginVars, cliVars, startVars, stopVars, chatVars>>
  \/ /\ part = "stop" /\ Stop!Next
     /\ UNCHANGED <<inspectVars, loginVars, cliVars, startVars, metricVars, chatVars>>
  \/ /\ part = "chat" /\ Chat!Next
     /\ UNCHANGED <<inspectVars, loginVars, cliVars, startVars, metricVars, stopVars>>
Next ==
  /\ UNCHANGED part
  /\ \/ GraphNext /\ UNCHANGED platformVars
     \/ PlatformNext /\ UNCHANGED graphVars
Spec == Init /\ [][Next]_<<part, graphVars, platformVars>>

\* Records are kept: a report lacks no answer of a built-in or configured rule, the
\* latest one is not older than one complete before the question, a comparison
\* agrees with the totals (inspection_service.go), and what a tab shows is in the
\* archive of its conversation (chat_session.go).
RecordsKept ==
  /\ part = "inspect" =>
       Inspect!ReportsAreWhole /\ Inspect!LatestNotOlder /\ Inspect!TrendAgrees
  /\ part = "chat" => Chat!AnswersArchived
\* Access is given and taken as it should be: an address is refused only for its
\* calls of the last minute, an account is locked for enough failures since its
\* last login and for nothing else (login_limiter.go); a login with its own state
\* is not ended for another, and the token file of concurrent commands holds the
\* newest token of every server (cmd/mutongctl).
AccessSound ==
  /\ part = "logins" => /\ Logins!RefusedForThisMinute
                        /\ Logins!EnoughFailuresLock /\ Logins!LockedForFailures
  /\ part = "client" => Client!OwnStateAccepted /\ Client!FileAsSerial
\* From start to end: absent parts crash the server in three cases only, background
\* parts are stopped before their connections are closed, a committed workload
\* message was handed over or counted as dropped, the business channel is empty
\* once the service has stopped, and the graph is closed after the label workers
\* have returned (cmd/main.go, k8sresource_service.go).
ServerLifeSound ==
  /\ part = "server" => Server!AbsenceTolerated /\ Server!StoppedBeforeClosed
  /\ part = "stop" => /\ Stop!CommittedHandedOver /\ Stop!BusinessDrained
                      /\ Stop!LabelsBeforeClose
\* Metrics are those of the object that was asked for, and a cached range is no
\* older than its life and one clean-up (query_service.go, cache.go).
MetricsSound == part = "metrics" => Metrics!ValuesOfAsked /\ Metrics!RangeAgeBounded
=============================================================================
