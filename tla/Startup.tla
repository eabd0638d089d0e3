------------------------------ MODULE Startup -------------------------------
(* How the server comes up and goes down with any subset of its optional      *)
(* parts configured (config/config.go NewConfig; cmd/main.go runApp,           *)
(* initializeServices, initializeGin) and what an absent one does to those    *)
(* that use it. A nil pointer handed over as an interface is hollow: the      *)
(* receiver's test for nil does not see it.                                   *)
EXTENDS Naturals, Sequences

CONSTANTS
  Options,     \* what may be configured: see the names below
  MaxFaults    \* services that are configured and cannot be reached

VARIABLES
  wanted,     \* the options configured
  phase,      \* how far runApp is
  open,       \* connections
  made,       \* parts built
  hollow,     \* parts that hold an interface around a nil pointer
  active,     \* background parts that run and have a Stop
  stops,      \* runApp's deferred calls, the last one first
  told,       \* a signal has come
  fate,       \* "alive", "exit" (os.Exit or panic while loading), "panic", "done"
  outages

vars == <<wanted, phase, open, made, hollow, active, stops, told, fate, outages>>

Init ==
  /\ wanted \in SUBSET Options
  /\ phase = "load" /\ open = {} /\ made = {} /\ hollow = {} /\ active = {}
  /\ stops = <<>> /\ told = FALSE /\ fate = "alive" /\ outages = 0

At(p) == phase = p /\ fate = "alive"
Has(o) == o \in wanted
Outage == outages < MaxFaults /\ outages' = outages + 1
Fine == UNCHANGED outages
Exit == fate' = "exit" /\ UNCHANGED <<phase, open, made, hollow, active, stops>>
Go(p, conns) ==
  /\ phase' = p /\ open' = open \cup conns
  /\ UNCHANGED <<fate, made, hollow, active, stops>>

-----------------------------------------------------------------------------
(* NewConfig: the files, the clusters, PostgreSQL, Nebula, the Kafka clients. *)
Load ==
  /\ At("load") /\ ((Fine /\ Go("clusters", {})) \/ (Outage /\ Exit))
  /\ UNCHANGED <<wanted, told>>

\* The single kubeconfig ends the process when it cannot be read; of a list of
\* clusters one is skipped.
Clusters ==
  /\ At("clusters")
  /\ \/ Fine /\ Go("database", IF Has("kubeconfig") \/ Has("clusters") THEN {"kube"} ELSE {})
     \/ Has("clusters") /\ Outage /\ Go("database", {})
     \/ ~Has("clusters") /\ Has("kubeconfig") /\ Outage /\ Exit
  /\ UNCHANGED <<wanted, told>>

SetupDB ==
  /\ At("database")
  /\ \/ Fine /\ Go("graph", IF Has("postgres") THEN {"db"} ELSE {})
     \/ Has("postgres") /\ Outage /\ Go("graph", {})
  /\ UNCHANGED <<wanted, told>>

SetupNebulaGraph ==
  /\ At("graph") /\ ((Fine /\ Go("kafka", {"graph"})) \/ (Outage /\ Exit))
  /\ UNCHANGED <<wanted, told>>

\* kgo.NewClient checks its options; it does not connect. Three more clients
\* for those topics that are configured.
OptionalClients == wanted \cap {"traces", "workloads", "flows"}
SetupKafka ==
  /\ At("kafka") /\ Fine /\ Go("services", {"kafka"} \cup OptionalClients)
  /\ UNCHANGED <<wanted, told>>

-----------------------------------------------------------------------------
(* runApp.                                                                   *)
Signal == /\ phase \notin {"load", "clusters", "database", "graph", "kafka"}
          /\ fate = "alive" /\ ~told /\ told' = TRUE
          /\ UNCHANGED <<wanted, phase, open, made, hollow, active, stops, fate, outages>>

\* initializeServices. An alert storage in PostgreSQL sets the database up again
\* if that failed; without it there are no alerts.
FlowAnyway(parts) == Has("topology")
NeedsTraces(parts) == Has("topology") /\ "traces" \in parts
Services ==
  LET db == IF "db" \in open \/ (Has("stored") /\ Has("postgres")) THEN {"db"} ELSE {}
      alerts == IF Has("stored") /\ db = {} THEN {} ELSE {"alerts"}
      labels == IF Has("topology") THEN {"labels"} ELSE {}
      traces == IF Has("topology") THEN open \cap {"traces"} ELSE {}
      Parts(lost) == (alerts \cup labels \cup traces) \ lost
  IN
  /\ At("services")
  /\ \E lost \in {{}, {"alerts"}, {"traces"}} :
       /\ IF lost = {} THEN Fine ELSE Outage
       /\ made' = Parts(lost) \cup (IF NeedsTraces(Parts(lost)) THEN open \cap {"flows"} ELSE {})
  /\ open' = open \cup db
  /\ hollow' = IF Has("topology") /\ "workloads" \notin open THEN {"labels"} ELSE {}
  /\ phase' = "inspection"
  /\ UNCHANGED <<wanted, active, stops, told, fate>>

\* The collector and the consumers start; the inspection's deferred Stop is
\* registered after cfg.Close's.
Inspect ==
  /\ At("inspection") /\ Fine
  /\ phase' = "routes" /\ stops' = <<"inspection", "config">>
  /\ made' = made \cup (wanted \cap {"inspection"})
  /\ active' = wanted \cap {"inspection"}
  /\ UNCHANGED <<wanted, open, hollow, told, fate>>

\* The first half of initializeGin seeds the OAuth2 clients in the database: a
\* nil *gorm.DB panics there.
Routes ==
  /\ At("routes") /\ Fine
  /\ IF "db" \in open
     THEN /\ phase' = "engine" /\ UNCHANGED fate
          /\ made' = made \cup (IF Has("executor") /\ "kube" \in open THEN {"executor"} ELSE {})
     ELSE fate' = "panic" /\ UNCHANGED <<phase, made>>
  /\ UNCHANGED <<wanted, open, hollow, active, stops, told>>

\* The second half: diagnosis, its tools, the pipeline, the retrospectives, all
\* of them only with alerts. The metrics adapter wraps a nil service without
\* Prometheus, the retrospectives' cache is a nil storage without Redis.
ToolsWithBoth(parts) == "executor" \in parts /\ Has("redis")
DiagnosisParts ==
  {"diagnosis", "retrospectives"}
    \cup (IF ToolsWithBoth(made) THEN {"tools"} ELSE {})
    \cup (IF "executor" \in made THEN {"pipeline"} ELSE {})
BuildEngine ==
  /\ At("engine") /\ Fine /\ phase' = "start"
  /\ made' = made \cup (IF "alerts" \in made THEN DiagnosisParts ELSE {})
  /\ hollow' = hollow \cup (IF "alerts" \in made /\ ~Has("prometheus") THEN {"diagnosis"} ELSE {})
                      \cup (IF "alerts" \in made /\ ~Has("redis") THEN {"retrospectives"} ELSE {})
  /\ UNCHANGED <<wanted, open, active, stops, told, fate>>

\* The HTTP server, then the syncers, each with its deferred Stop.
Queue(p, parts, calls) == IF p \in parts THEN Append(calls, p) ELSE calls
Defer(p, parts, calls) == IF p \in parts THEN <<p>> \o calls ELSE calls
First(parts, earlier) ==
  Queue("flows", parts, Queue("traces", parts, Queue("labels", parts, earlier)))
Later(parts, earlier) ==
  Defer("flows", parts, Defer("traces", parts, Defer("labels", parts, earlier)))
StartAll ==
  /\ At("start") /\ Fine /\ phase' = "serving"
  /\ active' = active \cup {p \in {"labels", "traces", "flows"} : p \in made}
  /\ stops' = Later(made, stops)
  /\ UNCHANGED <<wanted, open, made, hollow, told, fate>>

-----------------------------------------------------------------------------
(* While it serves. A panic in a goroutine without recover ends the process;  *)
(* one in a handler is answered with status 500.                              *)
Crash == fate' = "panic"
Survive == UNCHANGED fate
\* A diagnosis collects metrics in a goroutine of its own.
Diagnose == "diagnosis" \in made /\ (IF "diagnosis" \in hollow THEN Crash ELSE Survive)
ConsumeLabels == "labels" \in active /\ (IF "labels" \in hollow THEN Crash ELSE Survive)
\* Flows are resolved with the trace syncer, tools and the pipeline act with
\* the executor, the tools also read results from Redis.
Needs(p) == CASE p = "flows" -> {"traces"} [] p \in {"tools", "pipeline"} -> {"executor"} [] OTHER -> {}
Uses(p) ==
  /\ p \in made \cap {"flows", "tools", "pipeline"}
  /\ IF Needs(p) \subseteq made /\ (p = "tools" => Has("redis")) THEN Survive ELSE Crash
Serve ==
  /\ At("serving")
  /\ Diagnose \/ ConsumeLabels \/ \E p \in made : Uses(p)
  /\ UNCHANGED <<wanted, phase, open, made, hollow, active, stops, told, outages>>

\* main returns when the context is cancelled: the deferred calls run, one
\* after the other. The executor and the resource service are stopped by a
\* goroutine beside it; the engine's and the chats' Stop are never reached,
\* for initializeGin returns its outer, nil variables.
Return ==
  /\ At("serving") /\ told /\ stops # <<>>
  /\ stops' = Tail(stops)
  /\ IF Head(stops) = "config"
     THEN /\ open' = open \ {"graph", "kafka", "traces"}
          /\ phase' = "closed" /\ fate' = "done" /\ UNCHANGED active
     ELSE active' = active \ {Head(stops)} /\ UNCHANGED <<open, phase, fate>>
  /\ UNCHANGED <<wanted, made, hollow, told, outages>>

Next == Load \/ Clusters \/ SetupDB \/ SetupNebulaGraph \/ SetupKafka \/ Signal
          \/ Services \/ Inspect \/ Routes \/ BuildEngine \/ StartAll \/ Serve \/ Return

Spec == Init /\ [][Next]_vars

-----------------------------------------------------------------------------
\* Whichever optional parts are absent or unreachable, nothing that was built
\* runs into a missing one, except in three cases: no PostgreSQL, no Prometheus
\* at the first diagnosis, no workload topic below the business topology.
AbsenceTolerated ==
  fate = "panic" =>
    \/ "db" \notin open
    \/ ~Has("prometheus")
    \/ Has("topology") /\ ~Has("workloads")

\* When the graph and the Kafka clients are closed, every syncer and the
\* inspection have been stopped before.
StoppedBeforeClosed == fate = "done" => active = {}

\* README.md says that the service starts, with less, without PostgreSQL.
StartsWithoutPostgres == fate = "panic" => "postgres" \in wanted

\* Config.Close is documented to close every connection.
ClosesAll == fate = "done" => open = {"kube"} \cap open
=============================================================================
