--------------------------- MODULE ImpactAnalysis ----------------------------
(* What an alert's resource affects: the walk over the graph of resources,    *)
(* query by query while the graph changes, and the business applications      *)
(* around it, computed at once.                                               *)
EXTENDS Naturals, FiniteSets, FiniteSetsExt

CONSTANTS Resources, Root,  \* resources of the graph, and the alert's own
          NonCore,          \* resources of a kind the walk leaves out
          Batch, Limit,     \* resources of one query, rows it returns
          Hops,             \* depth of the walk
          MaxChanges,       \* bound on changes of the graph
          MaxCalls,         \* bound on the calls between applications
          Apps              \* business applications: <<name, namespace>>

VARIABLES
  graph,    \* the live resources and the edges between them
  stage,    \* what is being computed: resolve, all, direct, apps, context, done
  depth, todo, next, seen,  \* the walk: frontier still to query, next frontier, found
  found,    \* resources listed by the walk, a repeated one counted again
  all, direct, blast,       \* results of the walks of Hops and of 1
  cut,      \* a query failed or had more rows than it returns
  changes,
  calls,    \* CallsApp edges
  owned,    \* applications of the alert, of its resource, of its owners
  context   \* the applications listed, by hops from the direct ones
vars == <<graph, stage, depth, todo, next, seen, found, all, direct, blast, cut, changes,
          calls, owned, context>>

Pairs == {{a, b} : a, b \in Resources} \ {{a} : a \in Resources}
Init ==
  /\ \E edges \in SUBSET Pairs : graph = [live |-> Resources, edges |-> edges]
  /\ stage = "resolve" /\ depth = 0 /\ todo = {} /\ next = {} /\ seen = {} /\ found = 0
  /\ all = {} /\ direct = {} /\ blast = 0 /\ cut = FALSE /\ changes = 0
  /\ calls = {} /\ owned = [alert |-> {}, resource |-> {}, owners |-> {}]
  /\ context = <<{}, {}, {}>>

walkVars == <<depth, todo, next, seen, found>>
appVars == <<calls, owned, context>>

-----------------------------------------------------------------------------
(* The graph is updated while it is walked. *)
Change ==
  /\ changes < MaxChanges /\ stage \in {"all", "direct"} /\ changes' = changes + 1
  /\ \/ \E r \in graph.live \ {Root} : graph' = [graph EXCEPT !.live = @ \ {r}]
     \/ \E e \in Pairs : graph' = [graph EXCEPT
          !.edges = IF e \in @ THEN @ \ {e} ELSE @ \cup {e}]
  /\ UNCHANGED <<stage, walkVars, all, direct, blast, cut, appVars>>

Adjacent(S) == {d \in graph.live : \E s \in S : {s, d} \in graph.edges}
Core == Resources \ NonCore

(* The UID is the alert's, or is looked up; without one the result is empty.  *)
Walk(s) == /\ stage' = s /\ depth' = 0 /\ todo' = {Root} /\ next' = {} /\ seen' = {Root} /\ found' = 0
ResolveUID ==
  /\ stage = "resolve"
  /\ \/ Walk("all")
     \/ stage' = "apps" /\ UNCHANGED walkVars
  /\ UNCHANGED <<graph, all, direct, blast, cut, changes, appVars>>

(* A query returns some rows of live neighbours of its resources; the rows of *)
(* other kinds are dropped after that.                                        *)
NotRoot(rows) == (rows \cap Core) \ {Root}
New(rows) == (rows \cap Core) \ seen
Query(s, hops) ==
  /\ stage = s /\ depth < hops /\ todo # {}
  /\ \E batch \in kSubset(Min({Batch, Cardinality(todo)}), todo) :
       LET adjacent == Adjacent(batch)
       IN /\ \/ \E rows \in kSubset(Min({Limit, Cardinality(adjacent)}), adjacent) :
                  /\ next' = next \cup New(rows) /\ seen' = seen \cup New(rows)
                  /\ found' = found + Cardinality(New(rows))
                  /\ cut' = (cut \/ rows # adjacent)
             \/ cut' = TRUE /\ UNCHANGED <<next, seen, found>>
          /\ todo' = todo \ batch
  /\ UNCHANGED <<graph, stage, depth, all, direct, blast, changes, appVars>>

Deeper(hops) == depth < hops
NextDepth(s, hops) ==
  /\ stage = s /\ Deeper(hops) /\ todo = {}
  /\ depth' = depth + 1 /\ todo' = next /\ next' = {}
  /\ UNCHANGED <<graph, stage, seen, found, all, direct, blast, cut, changes, appVars>>

Ended(hops) == depth = hops
EndAll ==
  /\ stage = "all" /\ Ended(Hops)
  /\ all' = seen \ {Root} /\ blast' = found /\ Walk("direct")
  /\ UNCHANGED <<graph, direct, cut, changes, appVars>>

EndDirect ==
  /\ stage = "direct" /\ Ended(1)
  /\ direct' = seen \ {Root} /\ stage' = "apps"
  /\ UNCHANGED <<graph, walkVars, all, blast, cut, changes, appVars>>

Step(s, hops) == Query(s, hops) \/ NextDepth(s, hops)
Indirect == all \ direct

-----------------------------------------------------------------------------
(* The business applications. *)
Callers(app) == {c[1] : c \in {d \in calls : d[2] = app}}
Callees(app) == {c[2] : c \in {d \in calls : d[1] = app}}

(* The application the alert was enriched with, else those of the resource,   *)
(* else those of its owners.                                                  *)
DirectApps ==
  IF owned.alert # {} THEN owned.alert
  ELSE IF owned.resource # {} THEN owned.resource ELSE owned.owners

(* The queries return names; the namespace of what they found stays empty.    *)
Found(apps) == {<<a[1], "">> : a \in apps}
OnlyCallees(D) == UNION {Callees(d) : d \in D}
Neighbours(D) == UNION {Callers(d) \cup Callees(d) : d \in D}
Farther(D) == UNION {(UNION {Callers(u) : u \in Found(Callers(d))})
                     \cup (UNION {Callees(u) : u \in Found(Callees(d))}) : d \in D}

Applications == \* the calls in the graph and the applications of the alert
  /\ stage = "apps" /\ stage' = "context"
  /\ \E c \in UNION {kSubset(k, Apps \X Apps) : k \in 0..MaxCalls},
        a, r, o \in {{}} \cup {{app} : app \in Apps} :
       /\ calls' = c /\ owned' = [alert |-> a, resource |-> r, owners |-> o]
  /\ UNCHANGED <<graph, walkVars, all, direct, blast, cut, changes, context>>

BuildBusinessImpactContext ==
  /\ stage = "context" /\ stage' = "done"
  /\ LET first == Found(Neighbours(DirectApps)) \ DirectApps
     IN context' = <<DirectApps, first, Found(Farther(DirectApps)) \ (DirectApps \cup first)>>
  /\ UNCHANGED <<graph, walkVars, all, direct, blast, cut, changes, calls, owned>>

Next ==
  \/ Change \/ ResolveUID \/ Step("all", Hops) \/ Step("direct", 1)
  \/ EndAll \/ EndDirect \/ Applications \/ BuildBusinessImpactContext
Spec == Init /\ [][Next]_vars

-----------------------------------------------------------------------------
Balls(n) == \* around the root, over live resources of the core kinds
  LET ball[k \in 0..n] ==
        IF k = 0 THEN {Root} ELSE ball[k - 1] \cup (Adjacent(ball[k - 1]) \cap Core)
  IN ball
Within(n) == Balls(n)[n] \ {Root}

(* While the graph stands still and no query is cut short, the blast radius   *)
(* counts each resource within the hops once, in whatever batches they were   *)
(* queried, and the direct impact is the part of it one hop away              *)
(* (topology.go:62-89, impact.go:49-54).                                      *)
BlastRadiusExact ==
  stage = "apps" /\ seen # {} /\ ~cut /\ changes = 0 =>
    all = Within(Hops) /\ blast = Cardinality(all)
    /\ direct = Within(1) /\ Indirect = Within(Hops) \ Within(1)

NamesOf(apps) == {a[1] : a \in apps}

(* Every caller and callee of an application the alert belongs to is listed   *)
(* one hop away, unless it is one of them (topology.go:631-678).              *)
NeighboursListed ==
  stage = "done" =>
    \A c \in calls : /\ c[1] \in context[1] => c[2][1] \in NamesOf(context[1] \cup context[2])
                    /\ c[2] \in context[1] => c[1][1] \in NamesOf(context[1] \cup context[2])

(* The comment says that the calls are followed for two hops                  *)
(* (topology.go:597).                                                         *)
TwoHops ==
  stage = "done" =>
    \A d \in context[1] : \A near \in Callees(d) :
      NamesOf(Callees(near)) \subseteq NamesOf(context[1] \cup context[2] \cup context[3])
=============================================================================
