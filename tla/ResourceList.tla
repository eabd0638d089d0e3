---------------------------- MODULE ResourceList ----------------------------
(* The lists of resources the web pages ask for (services/getResource.go),   *)
(* the cache in front of them (services/resource_cache.go) and its           *)
(* invalidation after every processed message (processMessage ends with      *)
(* invalidateMetadataCache).                                                 *)
EXTENDS Naturals, FiniteSets

CONSTANTS
  Queries,                \* among "all", "namespace", "cluster", "suggest", "kinds"
  Namespaced, Clusterwide,\* resources that may exist
  Requests,               \* handlers
  Workers,                \* Kafka workers
  Nothing,                \* no entry in the cache
  MaxChanges, MaxFaults   \* bounds

VARIABLES
  world,      \* the live resources of the graph
  version,    \* changes made to it
  cached,     \* bigcache: query -> entry
  tracked,    \* the keys Set recorded
  request,    \* handlers
  clearing,   \* workers in invalidateMetadataCache
  cleared,    \* the newest change whose invalidation is complete
  troubles

vars == <<world, version, cached, tracked, request, clearing, cleared, troubles>>

Scope(q) ==
  CASE q \in {"all", "kinds"} -> Namespaced \cup Clusterwide
    [] q \in {"namespace", "suggest"} -> Namespaced
    [] q = "cluster" -> Clusterwide
Tracks(q) == q # "kinds"

Idle == [stage |-> "idle", query |-> "", rows |-> {}, seen |-> 0, steady |-> {},
         partial |-> FALSE, crossed |-> FALSE]
Resting == [stage |-> "idle", change |-> 0, keys |-> {}]

Init ==
  /\ world \in SUBSET (Namespaced \cup Clusterwide) /\ version = 0
  /\ cached = [q \in Queries |-> Nothing] /\ tracked = {}
  /\ request = [r \in Requests |-> Idle]
  /\ clearing = [w \in Workers |-> Resting] /\ cleared = 0 /\ troubles = 0

At(r, stage) == request[r].stage = stage
Trouble == troubles < MaxFaults /\ troubles' = troubles + 1

\* A request that finds no entry goes to the graph. Filters, pages and the
\* bound of a suggestion are part of the key: a query stands for one of them,
\* with fewer than ten matches.
Ask(r, q) ==
  /\ At(r, "idle") /\ cached[q] = Nothing
  /\ request' = [request EXCEPT ![r] =
       [Idle EXCEPT !.stage = "namespaces", !.query = q, !.steady = world \cap Scope(q)]]
  /\ UNCHANGED <<world, version, cached, tracked, clearing, cleared, troubles>>

\* The namespaces, then what belongs to them (GO ... OVER BelongsTo REVERSELY).
\* A query that fails answers an empty list, which is not stored.
Rows(r) ==
  /\ At(r, "namespaces")
  /\ request' = [request EXCEPT ![r].seen = version,
       ![r].rows = world \cap (IF request[r].query = "all" THEN Namespaced
                                ELSE Scope(request[r].query)),
       ![r].stage = IF request[r].query = "all" THEN "cluster" ELSE "track"]
  /\ UNCHANGED <<world, version, cached, tracked, clearing, cleared, troubles>>
StoresEmpty(r) == request' = [request EXCEPT ![r].stage = "track", ![r].seen = version]
AnswersEmpty(r) == request' = [request EXCEPT ![r] = Idle]
RowsFail(r) ==
  /\ At(r, "namespaces") /\ Trouble /\ AnswersEmpty(r)
  /\ UNCHANGED <<world, version, cached, tracked, clearing, cleared>>

\* "All namespaces" also lists what belongs to none; if that query fails the
\* list goes without, and is stored like a whole one.
Union(r) ==
  /\ At(r, "cluster")
  /\ \/ /\ request' = [request EXCEPT ![r].rows = @ \cup (world \cap Clusterwide),
                                      ![r].stage = "track"]
        /\ UNCHANGED troubles
     \/ Trouble /\ request' = [request EXCEPT ![r].partial = TRUE, ![r].stage = "track"]
  /\ UNCHANGED <<world, version, cached, tracked, clearing, cleared>>

\* Set: the key is recorded under the lock, the entry is stored after it.
Track(r) ==
  /\ At(r, "track")
  /\ tracked' = IF Tracks(request[r].query) THEN tracked \cup {request[r].query} ELSE tracked
  /\ request' = [request EXCEPT ![r].stage = "put",
       ![r].crossed = @ \/ \E w \in Workers : clearing[w].stage \in {"delete", "reset"}]
  /\ UNCHANGED <<world, version, cached, clearing, cleared, troubles>>
Put(r) ==
  /\ At(r, "put")
  /\ cached' = [cached EXCEPT ![request[r].query] = request[r]]
  /\ request' = [request EXCEPT ![r] = Idle]
  /\ UNCHANGED <<world, version, tracked, clearing, cleared, troubles>>

\* An entry outlives its time, or is pushed out.
Evict(q) ==
  /\ cached[q] # Nothing /\ cached' = [cached EXCEPT ![q] = Nothing]
  /\ UNCHANGED <<world, version, tracked, request, clearing, cleared, troubles>>

\* A worker writes a resource, or marks it deleted, and comes to the end of
\* processMessage.
Change(w) ==
  /\ clearing[w].stage = "idle" /\ version < MaxChanges
  /\ \E t \in Namespaced \cup Clusterwide :
       world' = IF t \in world THEN world \ {t} ELSE world \cup {t}
  /\ version' = version + 1
  /\ request' = [r \in Requests |-> [request[r] EXCEPT !.steady = @ \cap world']]
  /\ clearing' = [clearing EXCEPT ![w] = [Resting EXCEPT !.stage = "kinds", !.change = version']]
  /\ UNCHANGED <<cached, tracked, cleared, troubles>>

\* invalidateMetadataCache: the entry of the kinds, then ClearAll: the recorded
\* keys are copied, deleted, and forgotten.
ClearKinds(w) ==
  /\ clearing[w].stage = "kinds"
  /\ cached' = [q \in Queries |-> IF q = "kinds" THEN Nothing ELSE cached[q]]
  /\ request' = [r \in Requests |-> [request[r] EXCEPT
       !.crossed = @ \/ (request[r].query = "kinds" /\ ~At(r, "namespaces"))]]
  /\ clearing' = [clearing EXCEPT ![w].stage = "collect"]
  /\ UNCHANGED <<world, version, tracked, cleared, troubles>>
NoKeys == {}
Keys == tracked
Collect(w) ==
  /\ clearing[w].stage = "collect"
  /\ clearing' = [clearing EXCEPT ![w].stage = "delete", ![w].keys = Keys]
  /\ request' = [r \in Requests |-> [request[r] EXCEPT
       !.crossed = @ \/ request[r].stage \in {"cluster", "track", "put"}]]
  /\ UNCHANGED <<world, version, cached, tracked, cleared, troubles>>
DeleteKeys(w) ==
  /\ clearing[w].stage = "delete"
  /\ cached' = [q \in Queries |-> IF q \in clearing[w].keys THEN Nothing ELSE cached[q]]
  /\ clearing' = [clearing EXCEPT ![w].stage = "reset"]
  /\ UNCHANGED <<world, version, tracked, request, cleared, troubles>>
Reset(w) ==
  /\ clearing[w].stage = "reset"
  /\ tracked' = {}
  /\ cleared' = IF clearing[w].change > cleared THEN clearing[w].change ELSE cleared
  /\ clearing' = [clearing EXCEPT ![w] = Resting]
  /\ request' = [r \in Requests |-> [request[r] EXCEPT !.crossed = @ \/ At(r, "put")]]
  /\ UNCHANGED <<world, version, cached, troubles>>

Next ==
  \/ \E r \in Requests :
       \/ \E q \in Queries : Ask(r, q)
       \/ Rows(r) \/ RowsFail(r) \/ Union(r) \/ Track(r) \/ Put(r)
  \/ \E q \in Queries : Evict(q)
  \/ \E w \in Workers : Change(w) \/ ClearKinds(w) \/ Collect(w) \/ DeleteKeys(w) \/ Reset(w)

Spec == Init /\ [][Next]_vars

-----------------------------------------------------------------------------
\* A list read before a change is not answered any more once the invalidation
\* that follows the change is complete, unless an invalidation ran while the
\* list was on its way into the cache: that entry is stored after it was to be
\* deleted, or its key is forgotten and no later invalidation finds it.
ClearedIsGone ==
  \A q \in Queries :
    (cached[q] # Nothing /\ ~cached[q].crossed) => cached[q].seen >= cleared

\* A stored list has every resource that was there all the while it was read,
\* unless the query for what belongs to no namespace failed: errors of the
\* other queries answer an empty list, and an empty list of that kind is not
\* stored.
StoredIsWhole ==
  \A q \in Queries :
    (cached[q] # Nothing /\ ~cached[q].partial) => cached[q].steady \subseteq cached[q].rows
=============================================================================
