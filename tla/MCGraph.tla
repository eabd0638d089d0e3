------------------------------ MODULE MCGraph -------------------------------
(* What is built in the graph besides the resources themselves, and what is *)
(* asked of it, for TLC: parts of MCPlatform.  part says which of the        *)
(* modules takes steps.                                                     *)
EXTENDS Naturals, FiniteSets, TLC

CONSTANTS
  AppResources, Controllers, Apps, Home, AppCalls, BlsWorkers, MaxAppChanges, MaxTroubles,
  ConfigNames, EdgeWorkers, MaxEdgeChanges, MaxTurns, MaxEdgeFaults,
  WalkResources, WalkRoot, NonCore, WalkBatch, RowLimit, Hops, MaxWalkChanges,
  CallingApps, MaxAppCalls,
  Nodes, Types, Depths, Wanted, MaxJoined, GoLimit, MaxMoves, MaxMishaps,
  Queries, Namespaced, Clusterwide, ListRequests, ListWorkers, MaxListChanges, MaxListFaults,
  NoRef, Nothing

VARIABLES part,
  live, changes, gone, topic, worker, inflight, seenEdge, seenBase, buffer,
  flush, vertex, member, known, span, calls, troubles, excused,
  rule, source, target, names, version, written, stored, edges, app, messages,
  task, turns, faults, disturbed, unsure,
  graph, stage, depth, todo, next, seen, found, all, direct, blast, cut,
  graphChanges, appCalls, owned, context,
  joined, alive, search, everAlive, steady, moves, mishaps,
  world, worldVersion, cached, tracked, request, clearing, cleared, cacheTroubles

appVars == <<live, changes, gone, topic, worker, inflight, seenEdge, seenBase,
             buffer, flush, vertex, member, known, span, calls, troubles, excused>>
edgeVars == <<rule, source, target, names, version, written, stored, edges, app,
              messages, task, turns, faults, disturbed, unsure>>
impactVars == <<graph, stage, depth, todo, next, seen, found, all, direct, blast, cut,
                graphChanges, appCalls, owned, context>>
searchVars == <<joined, alive, search, everAlive, steady, moves, mishaps>>
listVars == <<world, worldVersion, cached, tracked, request, clearing, cleared, cacheTroubles>>

AppPart == INSTANCE BusinessApps WITH
  Resources <- AppResources, Calls <- AppCalls, MaxChanges <- MaxAppChanges
EdgePart == INSTANCE ResourceEdges WITH
  Names <- ConfigNames, Workers <- EdgeWorkers, MaxChanges <- MaxEdgeChanges,
  MaxFaults <- MaxEdgeFaults
\* The walk, and the neighbours of the applications of an alert.
Walk == INSTANCE ImpactAnalysis WITH
  Resources <- WalkResources, Root <- WalkRoot, Batch <- WalkBatch, Limit <- RowLimit,
  MaxChanges <- MaxWalkChanges, MaxCalls <- 0, Apps <- {},
  changes <- graphChanges, calls <- appCalls
Neighbour == INSTANCE ImpactAnalysis WITH
  Resources <- {WalkRoot}, Root <- WalkRoot, NonCore <- {}, Batch <- WalkBatch, Limit <- RowLimit, Hops <- 0,
  MaxChanges <- 0, MaxCalls <- MaxAppCalls, Apps <- CallingApps,
  changes <- graphChanges, calls <- appCalls
Search == INSTANCE GraphSearch WITH
  MaxEdges <- MaxJoined, Limit <- GoLimit, MaxChanges <- MaxMoves, MaxTroubles <- MaxMishaps
Lists == INSTANCE ResourceList WITH
  Requests <- ListRequests, Workers <- ListWorkers,
  MaxChanges <- MaxListChanges, MaxFaults <- MaxListFaults,
  version <- worldVersion, troubles <- cacheTroubles

\* A reference is none of the pairs of a name and a number; a graph is finite, and
\* it is walked or searched for a number of hops, of which a search has ten at most.
ASSUME GraphAssumption ==
  /\ NoRef \notin ConfigNames \X Nat
  /\ IsFiniteSet(WalkResources) /\ Hops \in Nat
  /\ Depths \subseteq 1..10

\* Four applications, two of one name.
FourApps == {<<"cart", "shop">>, <<"kafka", "data">>, <<"bill", "pay">>, <<"kafka", "">>}

\* The variables of a part that takes no steps.
AppIdle ==
  /\ live = 0 /\ changes = 0 /\ gone = 0 /\ topic = 0 /\ worker = 0 /\ inflight = 0
  /\ seenEdge = 0 /\ seenBase = 0 /\ buffer = 0 /\ flush = 0 /\ vertex = 0 /\ member = 0
  /\ known = 0 /\ span = 0 /\ calls = 0 /\ troubles = 0 /\ excused = 0
EdgeIdle ==
  /\ rule = 0 /\ source = 0 /\ target = 0 /\ names = 0 /\ version = 0 /\ written = 0
  /\ stored = 0 /\ edges = 0 /\ app = 0 /\ messages = 0 /\ task = 0 /\ turns = 0
  /\ faults = 0 /\ disturbed = 0 /\ unsure = 0
ImpactIdle ==
  /\ graph = 0 /\ stage = 0 /\ depth = 0 /\ todo = 0 /\ next = 0 /\ seen = 0
  /\ found = 0 /\ all = 0 /\ direct = 0 /\ blast = 0 /\ cut = 0 /\ graphChanges = 0
  /\ appCalls = 0 /\ owned = 0 /\ context = 0
SearchIdle ==
  /\ joined = 0 /\ alive = 0 /\ search = 0 /\ everAlive = 0 /\ steady = 0 /\ moves = 0
  /\ mishaps = 0
ListIdle ==
  /\ world = 0 /\ worldVersion = 0 /\ cached = 0 /\ tracked = 0 /\ request = 0
  /\ clearing = 0 /\ cleared = 0 /\ cacheTroubles = 0

graphVars == <<appVars, edgeVars, impactVars, searchVars, listVars>>
GraphParts == {"apps", "edges", "walk", "neighbours", "search", "lists"}
GraphInit ==
  /\ IF part = "apps" THEN AppPart!Init ELSE AppIdle
  /\ IF part = "edges" THEN EdgePart!Init ELSE EdgeIdle
  /\ CASE part = "walk" -> Walk!Init [] part = "neighbours" -> Neighbour!Init
       [] OTHER -> ImpactIdle
  /\ IF part = "search" THEN Search!Init ELSE SearchIdle
  /\ IF part = "lists" THEN Lists!Init ELSE ListIdle
GraphNext ==
  \/ /\ part = "apps" /\ AppPart!Next
     /\ UNCHANGED <<edgeVars, impactVars, searchVars, listVars>>
  \/ /\ part = "edges" /\ EdgePart!Next
     /\ UNCHANGED <<appVars, impactVars, searchVars, listVars>>
  \/ /\ part = "walk" /\ Walk!Next
     /\ UNCHANGED <<appVars, edgeVars, searchVars, listVars>>
  \/ /\ part = "neighbours" /\ Neighbour!Next
     /\ UNCHANGED <<appVars, edgeVars, searchVars, listVars>>
  \/ /\ part = "search" /\ Search!Next
     /\ UNCHANGED <<appVars, edgeVars, impactVars, listVars>>
  \/ /\ part = "lists" /\ Lists!Next
     /\ UNCHANGED <<appVars, edgeVars, impactVars, searchVars>>

\* When nothing is under way the graph is what the resources say: the members of
\* an application are the workloads with its label and a call that the cache calls
\* written is there (business_label_syncer.go, trace_topology_syncer.go); a
\* resource has an edge with what it refers to and with nothing else, since a
\* name is looked up as the resource that has it now (k8sresource_relationships.go).
GraphFollows ==
  /\ part = "apps" => AppPart!MembersMatch /\ AppPart!CallsWritten
  /\ part = "edges" => EdgePart!EdgesMatch /\ EdgePart!NameFound
\* What a walk through the changing graph answers is in it: the blast radius counts
\* each resource within the hops once, callers and callees of the affected
\* applications are listed (topology.go), a search shows the edges of all paths
\* within its depth and no vertex deleted before it began (getResource.go).
WalksExact ==
  /\ part = "walk" => Walk!BlastRadiusExact
  /\ part = "neighbours" => Neighbour!NeighboursListed
  /\ part = "search" => Search!SearchExact /\ Search!DeletedNotShown
\* A list from before a change is gone after the invalidation, and a cached list
\* lacks nothing that was there while it was read (resource_cache.go).
ListsFresh == part = "lists" => Lists!ClearedIsGone /\ Lists!StoredIsWhole
=============================================================================
