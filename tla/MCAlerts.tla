------------------------------ MODULE MCAlerts ------------------------------
(* The alert service with overlapping requests, and the parts around it:    *)
(* the aggregator, the two stores, routing and enrichment, for TLC.  part   *)
(* says which of them takes steps.                                          *)
EXTENDS MCAlertService

CONSTANTS
  Grouped, Keys, StartTimes, MaxTicks,
  StoreKinds, Fingerprints, Savers, Retention, StoreTime, MaxSaves,
  Teams, ByTeam, ByOwner, Minimums, Many,
  Uids, Nodes, AppTeams, Enrichers, Strategies, TTL, EnrichTime, MaxChanges

VARIABLES part,
  alert, groups, ticker, tick, scheduler, batch, summaries, ticks,
  kind, rows, storeNow, save, cleaner, quiet, saves,
  incoming, config, suppressed, stage, routing, asked, tried, told, stored,
  pod, runsOn, belongs, team, calls, cache, cacheNow, changes, handler, found

groupVars == <<alert, groups, ticker, tick, scheduler, batch, summaries, ticks>>
storeVars == <<kind, rows, storeNow, save, cleaner, quiet, saves>>
routeVars == <<incoming, config, suppressed, stage, routing, asked, tried, told, stored>>
enrichVars == <<pod, runsOn, belongs, team, calls, cache, cacheNow, changes, handler, found>>

Groups == INSTANCE AlertAggregator WITH Alerts <- Grouped, Times <- StartTimes
Stores == INSTANCE AlertStore WITH
  Kinds <- StoreKinds, Handlers <- Savers, MaxTime <- StoreTime,
  NoRow <- NoAlert, now <- storeNow
Routes == INSTANCE AlertRouting WITH alert <- incoming
Enrich == INSTANCE AlertEnricher WITH
  Teams <- AppTeams, Handlers <- Enrichers, MaxTime <- EnrichTime,
  None <- NoName, now <- cacheNow

ASSUME AlertsAssumption ==
  /\ StartTimes \subseteq Nat
  /\ {Retention, StoreTime} \subseteq Nat
  /\ NoAlert \notin [status: Stores!Statuses, at: 0..StoreTime]
  /\ Uids \subseteq Nat \ {0} /\ 1 \in Uids
  /\ NoName \notin [uid: Uids, node: Nodes \cup {NoName}, at: 0..EnrichTime]
  /\ EnrichTime \in Nat

\* The variables of a part that takes no steps.
GroupIdle ==
  /\ alert = 0 /\ groups = 0 /\ ticker = 0 /\ tick = 0 /\ scheduler = 0 /\ batch = 0
  /\ summaries = 0 /\ ticks = 0
StoreIdle ==
  /\ kind = 0 /\ rows = 0 /\ storeNow = 0 /\ save = 0 /\ cleaner = 0 /\ quiet = 0
  /\ saves = 0
RouteIdle ==
  /\ incoming = 0 /\ config = 0 /\ suppressed = 0 /\ stage = 0 /\ routing = 0
  /\ asked = 0 /\ tried = 0 /\ told = 0 /\ stored = 0
EnrichIdle ==
  /\ pod = 0 /\ runsOn = 0 /\ belongs = 0 /\ team = 0 /\ calls = 0 /\ cache = 0
  /\ cacheNow = 0 /\ changes = 0 /\ handler = 0 /\ found = 0

AlertsInit ==
  /\ part \in {"service", "groups", "stores", "routes", "enrich"}
  /\ Init
  /\ IF part = "groups" THEN Groups!Init ELSE GroupIdle
  /\ IF part = "stores" THEN Stores!Init ELSE StoreIdle
  /\ IF part = "routes" THEN Routes!Init ELSE RouteIdle
  /\ IF part = "enrich" THEN Enrich!Init ELSE EnrichIdle
AlertsNext ==
  /\ UNCHANGED part
  /\ \/ /\ part = "service" /\ Next
        /\ UNCHANGED <<groupVars, storeVars, routeVars, enrichVars>>
     \/ /\ part = "groups" /\ Groups!Next
        /\ UNCHANGED <<vars, storeVars, routeVars, enrichVars>>
     \/ /\ part = "stores" /\ Stores!Next
        /\ UNCHANGED <<vars, groupVars, routeVars, enrichVars>>
     \/ /\ part = "routes" /\ Routes!Next
        /\ UNCHANGED <<vars, groupVars, storeVars, enrichVars>>
     \/ /\ part = "enrich" /\ Enrich!Next
        /\ UNCHANGED <<vars, groupVars, storeVars, routeVars>>
AlertsSpec ==
  /\ AlertsInit
  /\ [][AlertsNext]_<<part, vars, groupVars, storeVars, routeVars, enrichVars>>

\* No alert gets lost: one that was added is in the groups, the batch or one
\* summary, whose times are those of its earliest and latest alert
\* (aggregator.go:67-123); one that was saved is found until it is resolved and
\* old, in either store (storage.go, pg_storage.go).
AlertsKept ==
  /\ part = "groups" => Groups!EachInOnePlace /\ Groups!BoundsExact
  /\ part = "stores" => Stores!SavedIsFound
\* Each affected team is named in a notice that was tried, and none hears of an
\* alert before, or more urgently than, its owner (notifier.go:66-80,
\* router.go:101-138).
NoticesInOrder == part = "routes" => Routes!EveryTeamTried /\ Routes!OwnerFirst
\* What enrichment adds is of the graph: the cache of Pods holds only what the
\* graph has held, the node of an alert is that of this very incarnation of its
\* Pod, and the teams to be told are those of the listed callers (enricher.go).
EnrichedFromGraph ==
  part = "enrich" =>
    Enrich!CachedWasFound /\ Enrich!NodeOfUid /\ Enrich!StakeholdersAreCallers
=============================================================================
