---------------------------- MODULE AlertService ----------------------------
(***************************************************************************)
(* The alert pipeline of services/alert: a webhook request of Alertmanager *)
(* is fanned out to worker goroutines, one per alert.  A worker enriches   *)
(* its alert, registers it with the suppressor, checks it against the      *)
(* other active alerts (topology, then call chain), saves it and notifies. *)
(*                                                                         *)
(* Every critical section of the suppressor, every access to the alert     *)
(* table and every channel operation is a step of its own, so the workers  *)
(* of one request and of several requests interleave freely.  Time is a    *)
(* coarse clock: one tick separates what the windows of the suppressor     *)
(* tell apart.                                                             *)
(***************************************************************************)
EXTENDS Integers, Sequences, FiniteSets

CONSTANTS
  Alerts,       \* alerts, by fingerprint
  Requests,     \* webhook requests (bounds how many are sent)
  Apps, Namespaces, Names,  \* names of applications, namespaces, resources
  Found,        \* what Enrich may find out about each alert
  MaxBatch,     \* bound on the alerts in one request
  WorkerCount,  \* alertWorkerCount
  Window,       \* TimeWindowSeconds
  MaxAge,       \* MaxAlertAgeMinutes
  Interval,     \* CleanupIntervalSec, 0 if shorter than a tick
  MaxDepth,     \* maxDepth of the configuration, 0 for no limit
  Horizon,      \* bound on the clock
  Faults,       \* whether the alert table and the channels may fail
  Panics,       \* whether a worker may panic
  NoAlert, NoName, NotActive

Kinds == {"Pod", "Node", "Deployment", "Unknown"}

\* The fields of EnrichedAlert that the suppressor depends on.
EnrichedAlert ==
  [kind: Kinds, name: Names \cup {NoName}, node: Names \cup {NoName},
   owner: Names \cup {NoName},          \* a Deployment
   app: Apps \cup {NoName}, ns: Namespaces,
   downs: SUBSET Apps,                  \* BusinessCalls.Downstreams
   exempt: BOOLEAN]  \* severity or criticality is listed as an exception

ASSUME ConstantsAssumption ==
  /\ Found \in [Alerts -> SUBSET EnrichedAlert]
  /\ NoAlert \notin Alerts
  /\ NoName \notin Apps \cup Names
  /\ NotActive \notin [info: EnrichedAlert, start: 0..Horizon]
  /\ {MaxBatch, WorkerCount} \subseteq Nat \ {0}
  /\ {Window, MaxAge, Interval, MaxDepth, Horizon} \subseteq Nat
  /\ {Faults, Panics} \subseteq BOOLEAN

VARIABLES
  now,          \* the clock
  source,       \* Alertmanager: the alerts, what it last told of them, and
                \* whether another request with the alert was running then
  request,      \* the calls of Process
  job,          \* the workers of each call
  results,      \* the results channel of each call
  active,       \* AlertSuppressor.activeAlerts
  index,        \* AlertSuppressor.bizAppAlertIndex
  lastCleanup,  \* AlertSuppressor.lastCleanup
  store         \* the alert table, one row per fingerprint

suppressor == <<active, index, lastCleanup>>
vars == <<now, source, request, job, results, suppressor, store>>

-----------------------------------------------------------------------------
Statuses == {"firing", "resolved"}
Event == [status: Statuses \cup {"none"}, start: 0..Horizon]
Never == [status |-> "none", start |-> 0]

Item == [alert: Alerts, status: Statuses, start: 0..Horizon]

JobPhases == {"idle", "register", "parents", "downstreams", "save", "notify",
              "done"}
Slots == 1..MaxBatch

NoJob == [phase |-> "idle", depth |-> 0, by |-> NoAlert, info |-> NotActive]

NewRequest == [phase |-> "idle", items |-> <<>>, spawned |-> 0, got |-> 0,
               processed |-> [i \in Slots |-> NoAlert]]

Registered == [info: EnrichedAlert, start: 0..Horizon]
Row == [status: Statuses \cup {"none"}, start: 0..Horizon,
        by: Alerts \cup {NoAlert}]
NoRow == [status |-> "none", start |-> 0, by |-> NoAlert]

Running(r) == {i \in Slots : job[r][i].phase \notin {"idle", "done"}}

InFlight(f) ==
  \E r \in Requests : /\ request[r].phase \in {"spawn", "collect"}
                      /\ \E i \in DOMAIN request[r].items :
                           request[r].items[i].alert = f

-----------------------------------------------------------------------------
(* Topology: a path from the node of the alert down to its owner.          *)

Node(n) == [kind |-> "Node", name |-> n]

TopologyPath(e) ==
  IF e.kind = "Node" THEN <<Node(e.name)>>
  ELSE (IF e.node # NoName THEN <<Node(e.node)>> ELSE <<>>)
       \o (IF e.kind = "Pod" THEN <<[kind |-> "Pod", name |-> e.name]>> ELSE <<>>)
       \o (IF e.owner # NoName
           THEN <<[kind |-> "Deployment", name |-> e.owner]>> ELSE <<>>)

\* How many elements of the path count as parents: never the last one.
ParentCount(path) ==
  LET all == Len(path) - 1 IN
  IF MaxDepth = 0 \/ MaxDepth > all THEN all ELSE MaxDepth

\* The registered alerts that count as alerts of the resource.
ParentAlerts(p) ==
  {g \in Alerts : /\ active[g] # NotActive
                  /\ LET e == active[g].info IN
                     \/ p.kind = "Node" /\ e.node = p.name
                     \/ e.kind = p.kind /\ e.name = p.name}

\* Bug: an alert finds itself among the alerts of its parents.
SuppressingParentsWithSelf(f, p) ==
  {g \in ParentAlerts(p) : active[g].start >= now - Window}

SuppressingParents(f, p) ==
  {g \in ParentAlerts(p) \ {f} : active[g].start >= now - Window}

FiringDownstreams(f, e) ==
  IF e.app = NoName THEN {}
  ELSE (UNION {index[<<d, e.ns>>] : d \in e.downs}) \ {f}

-----------------------------------------------------------------------------
Init ==
  /\ now = 0
  /\ source = [f \in Alerts |-> [is |-> Never, told |-> Never, shared |-> FALSE]]
  /\ request = [r \in Requests |-> NewRequest]
  /\ job = [r \in Requests |-> [i \in Slots |-> NoJob]]
  /\ results = [r \in Requests |-> <<>>]
  /\ active = [f \in Alerts |-> NotActive]
  /\ index = [k \in Apps \X Namespaces |-> {}]
  /\ lastCleanup = -Interval  \* the zero time: the first check cleans up
  /\ store = [f \in Alerts |-> NoRow]

-----------------------------------------------------------------------------
(* Alertmanager.                                                           *)

Tick ==
  /\ now < Horizon
  /\ now' = now + 1
  /\ UNCHANGED <<source, request, job, results, suppressor, store>>

Fire(f) ==
  /\ source[f].is.status # "firing"
  /\ source' = [source EXCEPT ![f].is = [status |-> "firing", start |-> now]]
  /\ UNCHANGED <<now, request, job, results, suppressor, store>>

Resolve(f) ==
  /\ source[f].is.status = "firing"
  /\ source' = [source EXCEPT ![f].is.status = "resolved"]
  /\ UNCHANGED <<now, request, job, results, suppressor, store>>

\* A group of alerts is posted.  A resolution is only reported of an alert
\* that was reported as firing.
Send(r, group) ==
  /\ request[r].phase = "idle"
  /\ \A i, j \in DOMAIN group : i # j => group[i] # group[j]
  /\ \A i \in DOMAIN group :
       LET a == source[group[i]] IN
       /\ a.is.status # "none"
       /\ a.is.status = "resolved" => a.told = [a.is EXCEPT !.status = "firing"]
  /\ request' = [request EXCEPT ![r].phase = "spawn",
       ![r].items = [i \in DOMAIN group |->
         [alert |-> group[i], status |-> source[group[i]].is.status,
          start |-> source[group[i]].is.start]]]
  /\ source' = [f \in Alerts |->
       IF \E i \in DOMAIN group : group[i] = f
       THEN [source[f] EXCEPT !.told = source[f].is, !.shared = InFlight(f)]
       ELSE source[f]]
  /\ UNCHANGED <<now, job, results, suppressor, store>>

-----------------------------------------------------------------------------
(* Process: one goroutine per alert, at most WorkerCount at a time.        *)

\* Bug: the place in the pool is taken by the goroutine instead of the loop.
SpawnUnbounded(r) ==
  /\ request[r].phase = "spawn"
  /\ LET i == request[r].spawned + 1 IN
     /\ job' = [job EXCEPT ![r][i].phase = "register"]
     /\ request' = [request EXCEPT ![r].spawned = i,
          ![r].phase = IF i = Len(request[r].items) THEN "collect" ELSE @]
  /\ UNCHANGED <<now, source, results, suppressor, store>>

Spawn(r) ==
  /\ request[r].phase = "spawn"
  /\ Cardinality(Running(r)) < WorkerCount
  /\ LET i == request[r].spawned + 1 IN
     /\ job' = [job EXCEPT ![r][i].phase = "register"]
     /\ request' = [request EXCEPT ![r].spawned = i,
          ![r].phase = IF i = Len(request[r].items) THEN "collect" ELSE @]
  /\ UNCHANGED <<now, source, results, suppressor, store>>

\* Bug: the results channel has no buffer, so that a worker needs the
\* receiver to give up its place in the pool.
HasRoomUnbuffered(r) == request[r].phase = "collect" /\ results[r] = <<>>

(* The channel holds a result of every alert of the request.               *)
HasRoom(r) == Len(results[r]) < Len(request[r].items)

\* Bug: the loop over the payload's alerts starts at the second one.
CollectedEarly(r, n) == n + 1 >= Len(request[r].items)

(* The collecting loop ends after one result per alert of the payload.     *)
Collected(r, n) == n = Len(request[r].items)

\* Results are stored at the index they carry.  (After the last one a resolved
\* payload drops the cached diagnoses of what was stored.)
Collect(r) ==
  /\ request[r].phase = "collect"
  /\ results[r] # <<>>
  /\ LET res == Head(results[r])
         got == request[r].got + 1
     IN request' = [request EXCEPT ![r].got = got,
          ![r].processed[res.index] = res.alert,
          ![r].phase = IF Collected(r, got) THEN "done" ELSE @]
  /\ results' = [results EXCEPT ![r] = Tail(@)]
  /\ UNCHANGED <<now, source, job, suppressor, store>>

-----------------------------------------------------------------------------
(* processSingleAlert: the steps of worker i of request r.                 *)

At(r, i, phase) == job[r][i].phase = phase
The(r, i) == request[r].items[i]
Fp(r, i) == request[r].items[i].alert

Goto(r, i, phase) == job' = [job EXCEPT ![r][i].phase = phase]

Decide(r, i, g) ==
  job' = [job EXCEPT ![r][i].phase = "save", ![r][i].by = g]

\* Bug: an alert of exactly the maximum age is too old.
EvictedInclusive(reg) ==
  IF now - lastCleanup < Interval THEN reg
  ELSE [g \in Alerts |-> IF reg[g] # NotActive /\ reg[g].start <= now - MaxAge
                         THEN NotActive ELSE reg[g]]

(* evictStaleAlerts removes old alerts from activeAlerts only.             *)
Evicted(reg) ==
  IF now - lastCleanup < Interval THEN reg
  ELSE [g \in Alerts |-> IF reg[g] # NotActive /\ reg[g].start < now - MaxAge
                         THEN NotActive ELSE reg[g]]

\* Bug: a firing alert takes the place of the others of its application.
IndexReplaced(f, status, e) ==
  IF e.app = NoName THEN index
  ELSE [index EXCEPT ![<<e.app, e.ns>>] =
         IF status = "firing" THEN {f} ELSE @ \ {f}]

(* The alert enters or leaves the entry of the application that this       *)
(* webhook's enrichment found, if it found one.                            *)
Indexed(f, status, e) ==
  IF e.app = NoName THEN index
  ELSE [index EXCEPT ![<<e.app, e.ns>>] =
         IF status = "firing" THEN @ \cup {f} ELSE @ \ {f}]

\* Enrich, evictStaleAlerts, updateActiveAlerts and the exceptions.
Register(r, i) ==
  /\ At(r, i, "register")
  /\ \E e \in Found[Fp(r, i)] :
       LET f == Fp(r, i)
           it == The(r, i)
       IN /\ active' = [Evicted(active) EXCEPT ![f] =
               IF it.status = "firing" THEN [info |-> e, start |-> it.start]
               ELSE NotActive]
          /\ index' = Indexed(f, it.status, e)
          /\ job' = [job EXCEPT ![r][i].info = e,
               ![r][i].phase = IF e.exempt THEN "save" ELSE "parents"]
  /\ lastCleanup' = IF now - lastCleanup < Interval THEN lastCleanup ELSE now
  /\ UNCHANGED <<now, source, request, results, store>>

\* checkTopologySuppression: one parent at a time, each under its own lock.
CheckParent(r, i) ==
  /\ At(r, i, "parents")
  /\ LET path == TopologyPath(job[r][i].info)
         next == job[r][i].depth + 1
     IN \/ next > ParentCount(path) /\ Goto(r, i, "downstreams")
        \/ /\ next <= ParentCount(path)
           /\ \E g \in SuppressingParents(Fp(r, i), path[next]) : Decide(r, i, g)
        \/ /\ next <= ParentCount(path)
           /\ SuppressingParents(Fp(r, i), path[next]) = {}
           /\ job' = [job EXCEPT ![r][i].depth = next,
                ![r][i].phase = IF next = ParentCount(path) THEN "downstreams" ELSE @]
  /\ UNCHANGED <<now, source, request, results, suppressor, store>>

\* checkCausalSuppression: any other alert of an application this one calls.
CheckDownstreams(r, i) ==
  /\ At(r, i, "downstreams")
  /\ LET causes == FiringDownstreams(Fp(r, i), job[r][i].info) IN
     \/ \E g \in causes : Decide(r, i, g)
     \/ causes = {} /\ Goto(r, i, "save")
  /\ UNCHANGED <<now, source, request, results, suppressor, store>>

\* AlertStorage.Save: the row of the fingerprint is replaced.
Save(r, i) ==
  /\ At(r, i, "save")
  /\ \/ store' = [store EXCEPT ![Fp(r, i)] =
          [status |-> The(r, i).status, start |-> The(r, i).start, by |-> job[r][i].by]]
     \/ Faults /\ store' = store
  /\ Goto(r, i, "notify")
  /\ UNCHANGED <<now, source, request, results, suppressor>>

\* The notification, unless suppressed (one that fails is not repeated), then
\* the result.  It carries no index, so all results carry the first one.
Deliver(r, i) ==
  /\ At(r, i, "notify")
  /\ HasRoom(r)
  /\ results' = [results EXCEPT ![r] = Append(@, [index |-> 1, alert |-> Fp(r, i)])]
  /\ job' = [job EXCEPT ![r][i] = [NoJob EXCEPT !.phase = "done"]]
  /\ UNCHANGED <<now, source, request, suppressor, store>>

\* A recovered panic delivers the alert under its own index.
Panic(r, i) ==
  /\ Panics
  /\ job[r][i].phase \in {"register", "parents", "downstreams", "save", "notify"}
  /\ HasRoom(r)
  /\ results' = [results EXCEPT ![r] = Append(@, [index |-> i, alert |-> Fp(r, i)])]
  /\ job' = [job EXCEPT ![r][i] = [NoJob EXCEPT !.phase = "done"]]
  /\ UNCHANGED <<now, source, request, suppressor, store>>

-----------------------------------------------------------------------------
WorkerStep(r, i) ==
  \/ Register(r, i) \/ CheckParent(r, i) \/ CheckDownstreams(r, i)
  \/ Save(r, i) \/ Deliver(r, i)

Next ==
  \/ Tick
  \/ \E f \in Alerts : Fire(f) \/ Resolve(f)
  \/ \E r \in Requests, n \in Slots : \E group \in [1..n -> Alerts] : Send(r, group)
  \/ \E r \in Requests : Spawn(r) \/ Collect(r)
  \/ \E r \in Requests, i \in Slots : WorkerStep(r, i) \/ Panic(r, i)

Spec == Init /\ [][Next]_vars

\* The scheduler runs every goroutine; enrichment and notification time out.
Fairness ==
  \A r \in Requests : /\ WF_vars(Spawn(r)) /\ WF_vars(Collect(r))
                      /\ \A i \in Slots : WF_vars(WorkerStep(r, i))

FairSpec == Spec /\ Fairness

-----------------------------------------------------------------------------
(* Properties.                                                             *)

Job == [phase: JobPhases, depth: 0..3, by: Alerts \cup {NoAlert},
        info: EnrichedAlert \cup {NotActive}]

\* Every variable has its type; the workers that were spawned belong to an
\* alert of their request, are never more than the pool allows, and are each
\* running, waiting in the channel or collected.
TypeOK ==
  /\ now \in 0..Horizon
  /\ source \in [Alerts -> [is: Event, told: Event, shared: BOOLEAN]]
  /\ job \in [Requests -> [Slots -> Job]]
  /\ \A r \in Requests :
       /\ request[r].phase \in {"idle", "spawn", "collect", "done"}
       /\ request[r].items \in Seq(Item)
       /\ request[r].spawned \in 0..Len(request[r].items)
       /\ request[r].processed \in [Slots -> Alerts \cup {NoAlert}]
       /\ results[r] \in Seq([index: Slots, alert: Alerts])
       /\ \A i \in Slots : job[r][i].phase # "idle" <=> i <= request[r].spawned
       /\ Cardinality(Running(r)) <= WorkerCount
       /\ Cardinality(Running(r)) + Len(results[r]) + request[r].got
            = request[r].spawned
  /\ active \in [Alerts -> Registered \cup {NotActive}]
  /\ index \in [Apps \X Namespaces -> SUBSET Alerts]
  /\ lastCleanup \in Int
  /\ store \in [Alerts -> Row]

\* Process returns only when no worker of the request is left: what a worker
\* still did after the reply would run on the request's cancelled context.
NoWorkerOutlivesReply ==
  \A r \in Requests : request[r].phase = "done" =>
    /\ \A i \in DOMAIN request[r].items : job[r][i].phase = "done"
    /\ results[r] = <<>>

\* An alert is only suppressed on account of another one that was reported as
\* firing, and an alert of an excepted severity or criticality never is: an
\* alert must not suppress itself though it is registered before it is checked.
SuppressedByAnother ==
  \A r \in Requests, i \in Slots : job[r][i].by # NoAlert =>
    /\ job[r][i].by # Fp(r, i)
    /\ source[job[r][i].by].told # Never
    /\ ~ job[r][i].info.exempt

\* The call chain check finds every active alert of an application: the
\* registry and the index are kept under different locks and cleaned up by
\* different code.
IndexCoversActive ==
  \A f \in Alerts :
    active[f] # NotActive /\ active[f].info.app # NoName =>
      f \in index[<<active[f].info.app, active[f].info.ns>>]

\* When Alertmanager has its reply, the suppressor and the table say of the
\* alert what the webhook said, whatever the requests for other alerts did
\* meanwhile and whatever overlapping requests left behind earlier; only alerts
\* older than MaxAge may have left the registry.
ReplyMeansApplied ==
  \A f \in Alerts :
    LET told == source[f].told IN
    told # Never /\ ~source[f].shared /\ ~InFlight(f) /\ ~Faults =>
      /\ store[f].status = told.status /\ store[f].start = told.start
      /\ told.status = "resolved" => active[f] = NotActive
      /\ told.status = "firing" /\ told.start >= now - MaxAge
           => active[f] # NotActive /\ active[f].start = told.start

\* Every request is answered, for any number of alerts and workers: the pool,
\* the spawning loop and the results channel never wait on each other.
EveryRequestAnswered ==
  \A r \in Requests : request[r].phase = "spawn" ~> request[r].phase = "done"

-----------------------------------------------------------------------------
(* What documents and tests say and the code does not do.                  *)

\* Only derived alerts are suppressed (README.md, topology aware suppression):
\* two alerts of one request never suppress each other.
OnlyDerivedSuppressed ==
  \A r \in Requests, i, j \in Slots :
    ~ (/\ job[r][i].by # NoAlert /\ job[r][j].by # NoAlert
       /\ job[r][i].by = Fp(r, j) /\ job[r][j].by = Fp(r, i))

=============================================================================
