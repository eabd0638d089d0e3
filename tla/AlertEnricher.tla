---------------------------- MODULE AlertEnricher ----------------------------
(* The enrichment of alerts: the resource of an alert is looked up by its UID *)
(* or its labels, with a cache for Pods, then its application, the calls of   *)
(* the application and the teams that are affected. The graph changes between *)
(* the queries.                                                               *)
(*                                                                            *)
(* Alerts are about one Pod name; its incarnations are numbered. An external  *)
(* alert reaches its application by the strategy of its source.               *)
EXTENDS Naturals

CONSTANTS Uids,        \* the Pod's incarnations: 1..n
          Nodes, Apps, Teams,
          Handlers,
          Strategies,  \* of the sources of external alerts
          TTL,         \* life of a cache entry
          MaxTime, MaxChanges,
          None

VARIABLES
  pod,       \* per incarnation: absent, live, deleted
  runsOn, belongs, team, calls, \* edges of the graph
  cache,     \* the Pod's entry, or None
  now, changes,
  handler,   \* per handler: the alert it enriches
  found      \* incarnations the graph has ever held
vars == <<pod, runsOn, belongs, team, calls, cache, now, changes, handler, found>>

Default == "default team"
Start == [phase |-> "new", uid |-> 0, node |-> None, app |-> None, team |-> None,
          upstreams |-> {}, downstreams |-> {}, stakeholders |-> {}, steady |-> TRUE]
Init ==
  /\ pod = [u \in Uids |-> IF u = 1 THEN "live" ELSE "absent"]
  /\ runsOn = [u \in Uids |-> None] /\ belongs \in {[u \in Uids |-> a] : a \in Apps \cup {None}}
  /\ team \in [Apps -> Teams] /\ calls \in SUBSET {c \in Apps \X Apps : c[1] # c[2]}
  /\ cache = None /\ now = 0 /\ changes = 0
  /\ handler = [h \in Handlers |-> Start] /\ found = {1}

-----------------------------------------------------------------------------
(* The graph changes: the Pod is scheduled or re-created, a call appears.     *)
Unsteady == [h \in Handlers |-> [handler[h] EXCEPT !.steady = FALSE]]
Change ==
  /\ changes < MaxChanges /\ changes' = changes + 1 /\ handler' = Unsteady
  /\ UNCHANGED <<belongs, team, cache, now>>
Schedule(u, n) ==
  /\ pod[u] = "live" /\ runsOn[u] = None
  /\ runsOn' = [runsOn EXCEPT ![u] = n]
  /\ Change /\ UNCHANGED <<pod, calls, found>>
Recreate(u) ==
  /\ u + 1 \in Uids /\ pod[u] = "live"
  /\ pod' = [pod EXCEPT ![u] = "deleted", ![u + 1] = "live"] /\ found' = found \cup {u + 1}
  /\ Change /\ UNCHANGED <<runsOn, calls>>
NewCall(a, b) ==
  /\ a # b /\ <<a, b>> \notin calls
  /\ calls' = calls \cup {<<a, b>>}
  /\ Change /\ UNCHANGED <<pod, runsOn, found>>
Time == \* an entry expires TTL after it was last stored
  /\ now < MaxTime /\ now' = now + 1
  /\ cache' = IF cache # None /\ now' - cache.at >= TTL THEN None ELSE cache
  /\ UNCHANGED <<pod, runsOn, belongs, team, calls, changes, handler, found>>

-----------------------------------------------------------------------------
(* The resource. *)
Same == UNCHANGED <<pod, runsOn, belongs, team, calls, now, changes, found>>
Goes(h, phase, fields) ==
  handler' = [handler EXCEPT ![h] = [f \in DOMAIN handler[h] |->
    IF f = "phase" THEN phase ELSE IF f \in DOMAIN fields THEN fields[f] ELSE handler[h][f]]]

Begin(h, u) == \* u is the UID on the alert, 0 for none
  /\ handler[h].phase = "new"
  /\ Goes(h, IF u # 0 THEN "uid" ELSE "pod", [uid |-> u])
  /\ Same /\ UNCHANGED cache
NodeByName(u) == IF u > 1 /\ runsOn[u - 1] # None THEN runsOn[u - 1] ELSE runsOn[u]
NodeOf(u) == runsOn[u]
EnrichByUID(h) ==
  /\ handler[h].phase = "uid" /\ pod[handler[h].uid] # "absent"
  /\ Goes(h, "business", [node |-> NodeOf(handler[h].uid)])
  /\ Same /\ UNCHANGED cache
KeptUid(h) == handler[h].uid
FallbackUid(h) == 0
UidFails(h) == \* not in the graph, or the query fails
  /\ handler[h].phase = "uid"
  /\ Goes(h, "pod", [uid |-> FallbackUid(h)])
  /\ Same /\ UNCHANGED cache

ReadCache(h) ==
  /\ handler[h].phase = "pod" /\ cache # None
  /\ Goes(h, "store", [uid |-> cache.uid, node |-> cache.node])
  /\ Same /\ UNCHANGED cache
QueryPod(h) == \* the live Pod of the name; nothing is asked when a UID is set
  /\ handler[h].phase = "pod" /\ cache = None
  /\ IF handler[h].uid # 0 THEN Goes(h, "store", <<>>)
     ELSE \E u \in Uids : pod[u] = "live" /\ Goes(h, "store", [uid |-> u, node |-> NodeOf(u)])
  /\ Same /\ UNCHANGED cache
PodFails(h) == \* the alert keeps its labels only
  /\ handler[h].phase = "pod" /\ cache = None
  /\ Goes(h, "done", <<>>)
  /\ Same /\ UNCHANGED cache
StoreCache(h) == \* what came from the cache is stored again
  /\ handler[h].phase = "store"
  /\ cache' = [uid |-> handler[h].uid, node |-> handler[h].node, at |-> now]
  /\ Goes(h, "business", <<>>)
  /\ Same

EnrichFromNode(h) == \* infrastructure: no application of its own
  /\ handler[h].phase = "new"
  /\ Goes(h, "done", <<>>)
  /\ Same /\ UNCHANGED cache
EnrichFromService(h, a) == \* a is the application of the Service
  /\ handler[h].phase = "new"
  /\ Goes(h, "calls", [app |-> a, team |-> team[a]])
  /\ Same /\ UNCHANGED cache

(* External alerts; a is the application the labels or the node lead to.      *)
EnrichByGraph(h, a) ==
  /\ handler[h].phase = "new"
  /\ Goes(h, "calls", [app |-> a, team |-> team[a]])
  /\ Same /\ UNCHANGED cache
EnrichByNodeAffinity(h, a) == "node_affinity" \in Strategies /\ EnrichByGraph(h, a)
EnrichByServiceGraph(h, a) == "service_graph" \in Strategies /\ EnrichByGraph(h, a)
EnrichByLabels(h, a) == \* the team is on the alert or in the mapping of its source
  /\ handler[h].phase = "new"
  /\ Goes(h, "calls", [app |-> a, team |-> Default])
  /\ Same /\ UNCHANGED cache
EnrichByDirectBusinessApp(h, a) == "direct_business_app" \in Strategies /\ EnrichByLabels(h, a)
EnrichFromBusinessLabels(h, a) == "business_labels" \in Strategies /\ EnrichByLabels(h, a)
ExternalDefault(h) == \* no application is found: the source's own mapping
  /\ handler[h].phase = "new"
  /\ Goes(h, "done", [team |-> Default])
  /\ Same /\ UNCHANGED cache

-----------------------------------------------------------------------------
(* Its application, the calls and the teams, in four queries.                 *)
Business(h) ==
  /\ handler[h].phase = "business"
  /\ LET a == belongs[handler[h].uid]
     IN IF a = None THEN Goes(h, "done", <<>>) ELSE Goes(h, "calls", [app |-> a, team |-> team[a]])
  /\ Same /\ UNCHANGED cache
Callers(a) == {b \in Apps : <<b, a>> \in calls}
Callees(a) == {b \in Apps : <<a, b>> \in calls}
Upstreams(h) ==
  /\ handler[h].phase = "calls"
  /\ Goes(h, "downstreams", [upstreams |-> Callers(handler[h].app)])
  /\ Same /\ UNCHANGED cache
Downstreams(h) ==
  /\ handler[h].phase = "downstreams"
  /\ Goes(h, "teams", [downstreams |-> Callees(handler[h].app)])
  /\ Same /\ UNCHANGED cache
AllTeams(h, S) == {team[a] : a \in S}
AffectedTeams(h, S) == {team[a] : a \in S} \ {handler[h].team}
EnrichStakeholders(h) ==
  /\ handler[h].phase = "teams"
  /\ Goes(h, "done", [stakeholders |-> AffectedTeams(h, Callers(handler[h].app))])
  /\ Same /\ UNCHANGED cache
QueryFails(h) == \* each of the queries is optional
  /\ handler[h].phase \in {"calls", "downstreams", "teams"}
  /\ Goes(h, CASE handler[h].phase = "calls" -> "downstreams"
               [] handler[h].phase = "downstreams" -> "teams" [] OTHER -> "done",
          [steady |-> FALSE])
  /\ Same /\ UNCHANGED cache
NextAlert(h) ==
  /\ handler[h].phase = "done"
  /\ handler' = [handler EXCEPT ![h] = Start]
  /\ Same /\ UNCHANGED cache

Step(h) ==
  \/ (\E u \in Uids \cup {0} : Begin(h, u)) \/ EnrichByUID(h) \/ UidFails(h)
  \/ ReadCache(h) \/ QueryPod(h) \/ PodFails(h) \/ StoreCache(h)
  \/ EnrichFromNode(h) \/ ExternalDefault(h)
  \/ \E a \in Apps : \/ EnrichFromService(h, a) \/ EnrichByNodeAffinity(h, a)
                     \/ EnrichByServiceGraph(h, a) \/ EnrichByDirectBusinessApp(h, a)
                     \/ EnrichFromBusinessLabels(h, a)
  \/ Business(h) \/ Upstreams(h) \/ Downstreams(h) \/ EnrichStakeholders(h)
  \/ QueryFails(h) \/ NextAlert(h)
Next ==
  \/ (\E u \in Uids, n \in Nodes : Schedule(u, n)) \/ (\E u \in Uids : Recreate(u))
  \/ (\E a, b \in Apps : NewCall(a, b)) \/ Time
  \/ \E h \in Handlers : Step(h)
Spec == Init /\ [][Next]_vars

-----------------------------------------------------------------------------
(* The cache only holds Pods the graph has held under that name, though an    *)
(* alert may bring a UID the graph does not know yet (enricher.go:97-108,     *)
(* 203-281).                                                                  *)
CachedWasFound == cache # None => cache.uid \in found

(* The node of an enriched alert is the one its Pod, that very incarnation,   *)
(* runs on, or was not known yet (enricher.go:131-281).                       *)
NodeOfUid ==
  \A h \in Handlers :
    handler[h].uid # 0 => handler[h].node \in {None, runsOn[handler[h].uid]}

(* In a graph that does not change, the teams that are told are those of the  *)
(* callers listed in the alert, without the owner's (enricher.go:613-796).    *)
StakeholdersAreCallers ==
  \A h \in Handlers :
    handler[h].phase = "done" /\ handler[h].app # None /\ handler[h].steady =>
      handler[h].stakeholders = {team[a] : a \in handler[h].upstreams} \ {handler[h].team}
=============================================================================
