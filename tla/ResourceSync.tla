---------------------------- MODULE ResourceSync ----------------------------
(***************************************************************************)
(* From a change in a cluster to the graph: informer handlers              *)
(* (services/k8sresource_collector.go), the Kafka topic with its pool of   *)
(* workers (k8sresource_kafka.go), and the comparison of graph and cluster *)
(* with the removal of old tombstones (k8sresource_nebula.go).             *)
(*                                                                         *)
(* Every change of a resource is a version: UpdateFunc compares            *)
(* resourceVersion too.  The resources are not Leases, whose updates are   *)
(* ignored.  The topic has one partition.  Edges and the topic of business *)
(* workloads are left out.                                                 *)
(***************************************************************************)
EXTENDS Naturals, Integers, Sequences, SequencesExt

CONSTANTS
  Uids,          \* resources; a UID is never used again
  Workers,       \* the consumer's pool (WorkerPoolSize)
  Syncs,         \* calls of ForceSyncResources, one at a time each
  MaxRetries,    \* Kafka.MaxRetries
  PartialLists,  \* whether some kinds of resources may fail to be listed
  MaxChanges     \* bounds the changes of a resource and the restarts together

ASSUME ConstantsAssumption ==
  /\ MaxRetries \in Nat \ {0}
  /\ MaxChanges \in Nat \ {0}
  /\ PartialLists \in BOOLEAN

VARIABLES
  version, exists,   \* the cluster: newest version (0: not created), and presence
  seen,              \* what the informer has told: a version, 0, or Done
  cache,             \* BigCache: uid to version, 0 for a miss
  outbox,            \* per resource the goroutines that call seedToKafka
  log, fetched,      \* the topic, and how much of it the workers have taken
  committed, marked, \* the offset the group started from, and the marked head
  worker,            \* the workers of the consumer
  sync,              \* the calls of ForceSyncResources
  graph, deleted,    \* vertices: version (0: no vertex) and is_deleted
  disturbed,         \* history: resources whose messages met an accident
  restarts

cluster == <<version, exists>>
topic == <<log, fetched, committed, marked>>
vertices == <<graph, deleted>>
vars == <<cluster, seen, cache, outbox, topic, worker, sync, vertices, disturbed, restarts>>

-----------------------------------------------------------------------------
Versions == 1..MaxChanges

\* The informer has nothing more to tell of a resource.
Done == -1

Message == [uid: Uids, type: {"Added", "Updated", "Deleted"}, version: Versions]

Worker == [phase: {"idle", "check", "write", "commit"}, offset: Nat,
           tries: 0..(MaxRetries - 1)]
IdleWorker == [phase |-> "idle", offset |-> 0, tries |-> 0]

\* uids are those found in the graph, then the ghosts among them, then the
\* tombstones that are old enough.
Sync == [phase: {"idle", "scanned", "marking", "expiring"}, uids: SUBSET Uids]
IdleSync == [phase |-> "idle", uids |-> {}]

Gone(u) == version[u] > 0 /\ ~exists[u]

Current(w) == log[worker[w].offset]

\* A worker that took a message of u and has not finished with it.
WorksOn(w, u) == worker[w].phase # "idle" /\ Current(w).uid = u

\* Nothing the program knows of u is on its way.
Quiet(u) ==
  /\ seen[u] = IF exists[u] THEN version[u] ELSE Done
  /\ outbox[u] = <<>>
  /\ \A i \in (fetched + 1)..Len(log) : log[i].uid # u
  /\ \A w \in Workers : ~WorksOn(w, u)

Init ==
  /\ version = [u \in Uids |-> 0]
  /\ exists = [u \in Uids |-> FALSE]
  /\ seen = [u \in Uids |-> 0]
  /\ cache = [u \in Uids |-> 0]
  /\ outbox = [u \in Uids |-> <<>>]
  /\ log = <<>>
  /\ fetched = 0
  /\ committed = 0
  /\ marked = 0
  /\ worker = [w \in Workers |-> IdleWorker]
  /\ sync = [s \in Syncs |-> IdleSync]
  /\ graph = [u \in Uids |-> 0]
  /\ deleted = [u \in Uids |-> FALSE]
  /\ disturbed = {}
  /\ restarts = 0

-----------------------------------------------------------------------------
(* The cluster.                                                            *)

ClusterWrite(u) ==
  /\ version[u] + restarts < MaxChanges
  /\ version[u] > 0 => exists[u]
  /\ version' = [version EXCEPT ![u] = @ + 1]
  /\ exists' = [exists EXCEPT ![u] = TRUE]
  /\ UNCHANGED <<seen, cache, outbox, topic, worker, sync, vertices, disturbed, restarts>>

ClusterDelete(u) ==
  /\ exists[u]
  /\ exists' = [exists EXCEPT ![u] = FALSE]
  /\ UNCHANGED <<version, seen, cache, outbox, topic, worker, sync, vertices, disturbed,
                 restarts>>

-----------------------------------------------------------------------------
(* handleResourceEvent: cache first, then one goroutine per message.       *)

\* AddFunc and UpdateFunc.  The informer may be behind.
HandleChange(u, v) ==
  /\ seen[u] # Done /\ seen[u] < v /\ v <= version[u]
  /\ seen' = [seen EXCEPT ![u] = v]
  /\ cache' = [cache EXCEPT ![u] = v]
  /\ outbox' = [outbox EXCEPT ![u] =
       Append(@, [uid |-> u, type |-> IF seen[u] = 0 THEN "Added" ELSE "Updated",
                  version |-> v])]
  /\ UNCHANGED <<cluster, topic, worker, sync, vertices, disturbed, restarts>>

HandleDelete(u) ==
  /\ seen[u] > 0 /\ Gone(u)
  /\ seen' = [seen EXCEPT ![u] = Done]
  /\ cache' = [cache EXCEPT ![u] = 0]
  /\ outbox' = [outbox EXCEPT ![u] =
       Append(@, [uid |-> u, type |-> "Deleted", version |-> seen[u]])]
  /\ UNCHANGED <<cluster, topic, worker, sync, vertices, disturbed, restarts>>

\* A watch that was interrupted learns of a deletion by the next list.  It
\* passes a DeletedFinalStateUnknown, which is not an Unstructured.
HandleMissedDelete(u) ==
  /\ seen[u] # Done /\ Gone(u)
  /\ seen' = [seen EXCEPT ![u] = Done]
  /\ UNCHANGED <<cluster, cache, outbox, topic, worker, sync, vertices, disturbed, restarts>>

\* An entry of the cache reaches the end of its life.
Evict(u) ==
  /\ cache[u] # 0
  /\ cache' = [cache EXCEPT ![u] = 0]
  /\ disturbed' = IF Quiet(u) THEN disturbed ELSE disturbed \cup {u}
  /\ UNCHANGED <<cluster, seen, outbox, topic, worker, sync, vertices, restarts>>

\* Goroutines publish in any order.  Only a message that overtakes an
\* "Added" can do harm: the version check stops the others.
Publish(u, i) ==
  /\ i \in DOMAIN outbox[u]
  /\ log' = Append(log, outbox[u][i])
  /\ outbox' = [outbox EXCEPT ![u] = RemoveAt(@, i)]
  /\ disturbed' = IF \E j \in 1..(i - 1) : outbox[u][j].type = "Added"
                  THEN disturbed \cup {u} ELSE disturbed
  /\ UNCHANGED <<cluster, seen, cache, fetched, committed, marked, worker, sync, vertices,
                 restarts>>

\* An error of Publish is logged.
PublishFails(u, i) ==
  /\ i \in DOMAIN outbox[u]
  /\ outbox' = [outbox EXCEPT ![u] = RemoveAt(@, i)]
  /\ disturbed' = disturbed \cup {u}
  /\ UNCHANGED <<cluster, seen, cache, topic, worker, sync, vertices, restarts>>

-----------------------------------------------------------------------------
(* The consumer.                                                           *)

\* Another worker may still write an older message of u.
Racing(u) ==
  \E w \in Workers :
    /\ WorksOn(w, u)
    /\ \/ worker[w].phase = "write"
       \/ worker[w].phase = "check" /\ Current(w).type = "Added"

Take(w) ==
  LET u == log[fetched + 1].uid IN
  /\ worker[w].phase = "idle"
  /\ fetched < Len(log)
  /\ worker' = [worker EXCEPT ![w] =
       [phase |-> "check", offset |-> fetched + 1, tries |-> 0]]
  /\ fetched' = fetched + 1
  /\ disturbed' = IF Racing(u) THEN disturbed \cup {u} ELSE disturbed
  /\ UNCHANGED <<cluster, seen, cache, outbox, log, committed, marked, sync, vertices,
                 restarts>>

\* Bug: updates are written without a look at the cache.
SkipsDeletedOnly(m) == m.type = "Deleted" /\ deleted[m.uid]

\* What processKafkaMessage does not write: an update that the cache does
\* not confirm, a deletion that is already marked.
Skips(m) ==
  \/ m.type = "Updated" /\ cache[m.uid] # m.version
  \/ m.type = "Deleted" /\ deleted[m.uid]

\* isAlreadyDeleted takes an error for "no", so that it may not skip.
Check(w) ==
  LET m == Current(w) IN
  /\ worker[w].phase = "check"
  /\ \/ /\ Skips(m)
        /\ worker' = [worker EXCEPT ![w].phase = "commit"]
     \/ /\ m.type = "Deleted" \/ ~Skips(m)
        /\ worker' = [worker EXCEPT ![w].phase = "write"]
  /\ UNCHANGED <<cluster, seen, cache, outbox, topic, sync, vertices, disturbed, restarts>>

Write(w) ==
  LET m == Current(w) IN
  /\ worker[w].phase = "write"
  /\ graph' = [graph EXCEPT ![m.uid] = m.version]
  /\ deleted' = [deleted EXCEPT ![m.uid] = m.type = "Deleted"]
  /\ worker' = [worker EXCEPT ![w].phase = "commit"]
  /\ UNCHANGED <<cluster, seen, cache, outbox, topic, sync, disturbed, restarts>>

\* Bug: one attempt too many.
GivesUpLate(tries) == tries + 1 > MaxRetries

\* Does one more failure end the attempts?
GivesUp(tries) == tries + 1 >= MaxRetries

\* The graph refuses: once more from the start, after the backoff.
Retry(w) ==
  /\ worker[w].phase = "write"
  /\ ~GivesUp(worker[w].tries)
  /\ worker' = [worker EXCEPT ![w].phase = "check", ![w].tries = @ + 1]
  /\ UNCHANGED <<cluster, seen, cache, outbox, topic, sync, vertices, disturbed, restarts>>

\* Attempts are used up: the message is marked if the dead letter topic took
\* it, and left without a mark otherwise.
GiveUp(w) ==
  /\ worker[w].phase = "write"
  /\ GivesUp(worker[w].tries)
  /\ \/ worker' = [worker EXCEPT ![w].phase = "commit"]
     \/ worker' = [worker EXCEPT ![w] = IdleWorker]
  /\ disturbed' = disturbed \cup {Current(w).uid}
  /\ UNCHANGED <<cluster, seen, cache, outbox, topic, sync, vertices, restarts>>

\* MarkCommit raises the head of the marked offsets, whatever is below it.
Commit(w) ==
  /\ worker[w].phase = "commit"
  /\ marked' = IF worker[w].offset > marked THEN worker[w].offset ELSE marked
  /\ worker' = [worker EXCEPT ![w] = IdleWorker]
  /\ UNCHANGED <<cluster, seen, cache, outbox, log, fetched, committed, sync, vertices,
                 disturbed, restarts>>

-----------------------------------------------------------------------------
(* ForceSyncResources, periodically and on request.  Only the periodic     *)
(* call goes on to remove old tombstones.                                  *)

SyncUnchanged == UNCHANGED <<cluster, seen, cache, outbox, topic, worker, disturbed, restarts>>

\* Bug: looks only at resources that the cache knows.
CachedVertices == {u \in Uids : graph[u] > 0 /\ ~deleted[u] /\ cache[u] > 0}

\* Bug: whatever was not marked after the limit, a vertex without a mark too.
OldVertices == {u \in Uids : graph[u] > 0}

LiveVertices == {u \in Uids : graph[u] > 0 /\ ~deleted[u]}
Tombstones == {u \in Uids : graph[u] > 0 /\ deleted[u]}

\* Bug: trusts the cache instead of a list.
Uncached(found, answered) == {u \in found : cache[u] = 0}

\* What is in the graph and not among what the cluster listed.  answered are
\* the resources of the kinds whose list did not fail.
Ghosts(found, answered) == {u \in found : ~(exists[u] /\ u \in answered)}

Scan(s) ==
  /\ sync[s].phase = "idle"
  /\ sync' = [sync EXCEPT ![s] = [phase |-> "scanned", uids |-> LiveVertices]]
  /\ UNCHANGED vertices
  /\ SyncUnchanged

\* A kind whose list fails, or that no informer serves yet, is passed over.
\* The kinds are listed one after the other, which one step stands for: what
\* has left the cluster stays away, so that a later list finds more ghosts,
\* and MarkFails leaves those out that an earlier one did not find.
Answers == IF PartialLists THEN (SUBSET Uids) \ {{}} ELSE {Uids}

List(s, answered) ==
  /\ sync[s].phase = "scanned"
  /\ sync' = [sync EXCEPT ![s] =
       [phase |-> "marking", uids |-> Ghosts(sync[s].uids, answered)]]
  /\ UNCHANGED vertices
  /\ SyncUnchanged

\* The call ends, and the periodic one looks for tombstones to remove.  A
\* further batch of them is that of a call which finds nothing to compare.
Ends(s) ==
  \/ sync' = [sync EXCEPT ![s] = IdleSync]
  \/ \E expired \in SUBSET Tombstones :
       sync' = [sync EXCEPT ![s] = [phase |-> "expiring", uids |-> expired]]

\* Without any list, as before the informers start, nothing is compared.
Abort(s) ==
  /\ sync[s].phase = "scanned"
  /\ Ends(s)
  /\ UNCHANGED vertices
  /\ SyncUnchanged

\* UPDATE VERTEX finds no vertex if another call has removed it.
Mark(s, u) ==
  /\ sync[s].phase = "marking" /\ u \in sync[s].uids
  /\ sync' = [sync EXCEPT ![s].uids = @ \ {u}]
  /\ deleted' = IF graph[u] > 0 THEN [deleted EXCEPT ![u] = TRUE] ELSE deleted
  /\ UNCHANGED graph
  /\ SyncUnchanged

\* The error of the update is dropped.
MarkFails(s, u) ==
  /\ sync[s].phase = "marking" /\ u \in sync[s].uids
  /\ sync' = [sync EXCEPT ![s].uids = @ \ {u}]
  /\ UNCHANGED vertices
  /\ SyncUnchanged

Marked(s) ==
  /\ sync[s].phase = "marking" /\ sync[s].uids = {}
  /\ Ends(s)
  /\ UNCHANGED vertices
  /\ SyncUnchanged

\* DELETE VERTEX, which may fail.
Expire(s) ==
  /\ sync[s].phase = "expiring"
  /\ sync' = [sync EXCEPT ![s] = IdleSync]
  /\ \E removed \in SUBSET sync[s].uids :
       /\ graph' = [u \in Uids |-> IF u \in removed THEN 0 ELSE graph[u]]
       /\ deleted' = [u \in Uids |-> deleted[u] /\ u \notin removed]
  /\ SyncUnchanged

-----------------------------------------------------------------------------
\* The process ends and starts again from an offset that had been marked.
\* New informers tell everything that is there from the beginning, which
\* makes good what happened to resources that still exist.
Restart ==
  /\ restarts < MaxChanges
  /\ \A u \in Uids : version[u] + restarts < MaxChanges
  /\ restarts' = restarts + 1
  /\ \E start \in committed..marked :
       /\ committed' = start
       /\ marked' = start
       /\ fetched' = start
       /\ disturbed' = {u \in Uids : ~exists[u]} \cap
            (disturbed \cup {u \in Uids : \E w \in Workers :
                               WorksOn(w, u) /\ worker[w].offset <= start})
  /\ seen' = [u \in Uids |-> IF exists[u] \/ version[u] = 0 THEN 0 ELSE Done]
  /\ cache' = [u \in Uids |-> 0]
  /\ outbox' = [u \in Uids |-> <<>>]
  /\ worker' = [w \in Workers |-> IdleWorker]
  /\ sync' = [s \in Syncs |-> IdleSync]
  /\ UNCHANGED <<cluster, log, vertices>>

Work(w) == Check(w) \/ Write(w) \/ Retry(w) \/ GiveUp(w) \/ Commit(w)

SyncStep(s) ==
  \/ Scan(s)
  \/ \E answered \in Answers : List(s, answered)
  \/ Abort(s)
  \/ \E u \in Uids : Mark(s, u) \/ MarkFails(s, u)
  \/ Marked(s)
  \/ Expire(s)

Next ==
  \/ \E u \in Uids :
       \/ ClusterWrite(u) \/ ClusterDelete(u)
       \/ \E v \in Versions : HandleChange(u, v)
       \/ HandleDelete(u) \/ HandleMissedDelete(u) \/ Evict(u)
       \/ \E i \in DOMAIN outbox[u] : Publish(u, i) \/ PublishFails(u, i)
  \/ \E w \in Workers : Take(w) \/ Work(w)
  \/ \E s \in Syncs : SyncStep(s)
  \/ Restart

\* The ticker starts ForceSyncResources again and again and its calls end in
\* time.  The cluster does not refuse its lists for ever, nor the graph its
\* updates.  Nothing is assumed of informers, publishers and workers.
Fairness ==
  \A s \in Syncs :
    /\ WF_vars(SyncStep(s))
    /\ SF_vars(\E answered \in Answers : List(s, answered))
    /\ \A u \in Uids : SF_vars(Mark(s, u))

Spec == Init /\ [][Next]_vars
LiveSpec == Spec /\ Fairness

-----------------------------------------------------------------------------
TypeOK ==
  /\ version \in [Uids -> 0..MaxChanges]
  /\ exists \in [Uids -> BOOLEAN]
  /\ seen \in [Uids -> Versions \cup {0, Done}]
  /\ cache \in [Uids -> 0..MaxChanges]
  /\ outbox \in [Uids -> Seq(Message)]
  /\ log \in Seq(Message)
  /\ {fetched, committed, marked} \subseteq 0..Len(log)
  /\ worker \in [Workers -> Worker]
  /\ \A w \in Workers : worker[w].phase # "idle" => worker[w].offset \in 1..fetched
  /\ sync \in [Syncs -> Sync]
  /\ graph \in [Uids -> 0..MaxChanges]
  /\ deleted \in [Uids -> BOOLEAN]
  /\ disturbed \subseteq Uids
  /\ restarts \in 0..MaxChanges

\* No resource that is in the cluster is marked as deleted in the graph, by
\* whatever message, late or repeated, and by whatever comparison.  The graph
\* is read before the cluster in ForceSyncResources for this.
OnlyGhostsMarked == \A u \in Uids : deleted[u] => ~exists[u]

\* The removal of old tombstones never removes the vertex of a resource that
\* is in the cluster, although it reads and deletes by two calls.
LiveVertexStays ==
  [][\A u \in Uids : exists'[u] /\ graph[u] > 0 => graph'[u] > 0]_vars

\* When nothing is on its way, and no accident befell the messages of a
\* resource, the graph has its newest version, or its tombstone once the
\* topic ends with its deletion.  Messages that are published or processed in
\* another order, repeated after a restart or skipped are no accident, except
\* those that Publish and Take name.
GraphCatchesUp ==
  \A u \in Uids : Quiet(u) /\ u \notin disturbed =>
    /\ exists[u] => graph[u] = version[u] /\ ~deleted[u]
    /\ LET last == SelectLastInSeq(log, LAMBDA m : m.uid = u) IN
       last > 0 /\ log[last].type = "Deleted" => graph[u] = 0 \/ deleted[u]

\* A resource that left the cluster leaves the live part of the graph in the
\* end, and for good, also if all its messages are lost.
GhostsDisappear == \A u \in Uids : Gone(u) ~> [](graph[u] = 0 \/ deleted[u])
=============================================================================
