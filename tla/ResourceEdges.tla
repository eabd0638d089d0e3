--------------------------- MODULE ResourceEdges ----------------------------
(***************************************************************************)
(* The edges of a resource in the graph.  When the synchroniser has written *)
(* a resource it removes its edges and runs the handlers of its kind, each  *)
(* of which looks for what the resource refers to and inserts an edge.      *)
(* Between these calls other workers, the informer's handlers (which keep   *)
(* the cache of names) and the business syncer act.                         *)
(*                                                                          *)
(* The handlers differ in four things, which Rules tabulates; one source    *)
(* and one of its rules are followed here, since no handler touches the     *)
(* edges of another one's type.  A resource that is deleted and created     *)
(* again keeps its name: it is the next incarnation.                        *)
(***************************************************************************)
EXTENDS Naturals, Sequences, FiniteSets

CONSTANTS
  Names,       \* names the source may refer to
  Workers,
  MaxChanges,  \* bound on what happens to the source
  MaxTurns,    \* bound on what happens to targets and their cached names
  MaxFaults,   \* bound on failed calls of the graph
  NoRef

-----------------------------------------------------------------------------
\* A rule: the type of the edge; what is looked for (a "name" by cache and
\* graph, a "uid" that is in the source, a "label" that is made if it is not
\* there, what a "query" of the graph gives); when the handler itself removes
\* edges of its type ("before", only if it "found" something, "never"); where
\* the edge starts (at the source, "self", or at what was found, "other").
R(edges, by, cleans, from) ==
  {[edge |-> e, by |-> by, cleans |-> cleans, from |-> from] : e \in edges}

LabelRules == R({"BelongsToLabel"}, "label", "never", "self")
WebhookRules == R({"WebhookRefSvc"}, "name", "before", "self")
PolicyRules == R({"NpSelectsByLabel"}, "uid", "before", "self")
PeerRules == R({"NpSelectsNs"}, "query", "before", "self")
PdbRules == R({"PdbToPod"}, "query", "found", "self")
HpaRules == R({"AutoScales"}, "name", "found", "self")
TokenRules == R({"MountsSecret"}, "name", "never", "other")
ClusterRoleRules ==
  R({"BelongsToClusterRole", "BelongsToUser", "BelongsToGroup",
     "BelongsToServiceAccount"}, "name", "never", "self")
RoleRules ==
  R({"BelongsToRole", "BelongsToUser", "BelongsToGroup",
     "BelongsToServiceAccount"}, "name", "never", "self")
FlowSchemaRules ==
  R({"ReferencesPriorityLevel", "BelongsToServiceAccount", "BelongsToUser",
     "BelongsToGroup"}, "name", "before", "self")
CiliumRules == R({"CiliumEpToPod", "CiliumEpHasIdentity"}, "name", "before", "self")
CrdRules == R({"DefinesResource"}, "query", "before", "self")
ApiServiceRules ==
  R({"Uses"}, "name", "before", "self") \cup R({"ServesCRD"}, "query", "before", "self")
EventRules == R({"Events"}, "uid", "never", "self")
IngressRules ==
  R({"BelongsToIngressClass", "RoutesToSvc", "MountsSecret"}, "name", "never", "self")
OwnerRules == R({"OwnedBy"}, "uid", "never", "self")
NamespaceRules == R({"BelongsTo", "RegisteredON"}, "name", "never", "self")
PodRules ==
  R({"ServiceAccount", "RunsOn", "PodPrioClass", "PodRuntimeClass"}, "name", "never", "self")
VolumeRules == R({"MountsPVC", "MountsConfig", "MountsSecret"}, "name", "never", "self")
EnvRules == R({"MountsConfig", "MountsSecret"}, "name", "never", "self")
EphemeralRules == EnvRules
PvRules ==
  R({"BoundToPV"}, "uid", "never", "other")
    \cup R({"BelongsToStorageClass"}, "name", "never", "self")
ServiceRules ==
  R({"SvcToEp"}, "name", "never", "self") \cup R({"SvcToPods"}, "uid", "never", "self")
SliceRules ==
  R({"EpSliceToPods"}, "uid", "never", "self") \cup R({"SvcToPods"}, "uid", "before", "other")
StorageClassRules == R({"ScRefCSIDriver"}, "name", "never", "self")
AttachmentRules == R({"VolAttachToNode", "VolAttachToPV"}, "name", "before", "self")

Rules ==
  UNION {LabelRules, WebhookRules, PolicyRules, PeerRules, PdbRules, HpaRules,
    TokenRules, ClusterRoleRules, RoleRules, FlowSchemaRules, CiliumRules,
    CrdRules, ApiServiceRules, EventRules, IngressRules, OwnerRules,
    NamespaceRules, PodRules, VolumeRules, EnvRules, EphemeralRules, PvRules,
    ServiceRules, SliceRules, StorageClassRules, AttachmentRules}

\* Rules that differ in the type alone are one here.
Classes == {[r EXCEPT !.edge = "any"] : r \in Rules}
-----------------------------------------------------------------------------
VARIABLES
  rule,      \* the rule that is followed
  source,    \* the source: version, what it refers to, whether it was deleted
  target,    \* of each name the incarnation, and whether it lives
  names,     \* cache uid:<kind>:<ns>:<name>; 0 when there is none
  version,   \* cache <uid> of the source; 0 when there is none
  written,   \* incarnations that have a vertex, tombstones included
  stored,    \* the vertex of the source
  edges,     \* what the source has an edge of the rule with
  app,       \* the source has a BelongsToApp edge
  messages,  \* messages about the source no worker has taken
  task,      \* what each worker has to do and has found
  turns, faults,
  disturbed, \* history: the edges need not be what the source says
  unsure     \* history: names evicted, or looked up while they changed

vars == <<rule, source, target, names, version, written, stored, edges, app,
          messages, task, turns, faults, disturbed, unsure>>

Idle == [todo |-> <<>>]
NoSource == [v |-> 0, ref |-> NoRef, gone |-> FALSE]
Busy == {w \in Workers : task[w] # Idle}
Fault == faults < MaxFaults /\ faults' = faults + 1
Turn == turns < MaxTurns /\ turns' = turns + 1

Init ==
  /\ rule \in Classes
  /\ source = NoSource /\ stored = NoSource
  /\ target = [n \in Names |-> [inc |-> 0, live |-> FALSE]]
  /\ names = [n \in Names |-> 0] /\ version = 0
  /\ written = [n \in Names |-> {}]
  /\ edges = {} /\ app = FALSE /\ messages = {}
  /\ task = [w \in Workers |-> Idle]
  /\ turns = 0 /\ faults = 0 /\ disturbed = FALSE /\ unsure = {}

-----------------------------------------------------------------------------
\* handleResourceEvent for the source.
References ==
  {NoRef} \cup
  IF rule.by = "uid"
  THEN {<<n, target[n].inc>> : n \in {m \in Names : target[m].live}}
  ELSE {<<n, 0>> : n \in Names}

Change ==
  /\ ~source.gone /\ source.v < MaxChanges
  /\ \E ref \in References :
       source' = [v |-> source.v + 1, ref |-> ref, gone |-> FALSE]
  /\ version' = source'.v
  /\ messages' = messages \cup
       {[type |-> IF source.v = 0 THEN "Added" ELSE "Updated", s |-> source']}
  /\ disturbed' = (messages # {} \/ Busy # {})
  /\ UNCHANGED <<rule, target, names, written, stored, edges, app, task, turns,
                 faults, unsure>>

Delete ==
  /\ source.v > 0 /\ ~source.gone
  /\ source' = [source EXCEPT !.gone = TRUE]
  /\ version' = 0
  /\ messages' = messages \cup {[type |-> "Deleted", s |-> source']}
  /\ disturbed' = (messages # {} \/ Busy # {})
  /\ UNCHANGED <<rule, target, names, written, stored, edges, app, task, turns,
                 faults, unsure>>

\* handleResourceEvent for a target; its vertex is written later.
LooksUp(w, n) == w \in Busy /\ Head(task[w].todo) = "remember" /\ task[w].ref[1] = n
Changed(n) ==
  /\ disturbed' = TRUE
  /\ unsure' = IF \E w \in Workers : LooksUp(w, n)
                  THEN unsure \cup {n} ELSE unsure \ {n}

\* Bug: the cache of names is left to the lookups.
NameKept(n) == names
NameSet(n) == [names EXCEPT ![n] = target[n].inc + 1]

TargetAdded(n) ==
  /\ ~target[n].live /\ Turn
  /\ target' = [target EXCEPT ![n] = [inc |-> @.inc + 1, live |-> TRUE]]
  /\ names' = NameSet(n)
  /\ Changed(n)
  /\ UNCHANGED <<rule, source, version, written, stored, edges, app, messages,
                 task, faults>>

TargetDeleted(n) ==
  /\ target[n].live /\ Turn
  /\ target' = [target EXCEPT ![n].live = FALSE]
  /\ names' = [names EXCEPT ![n] = 0]
  /\ Changed(n)
  /\ UNCHANGED <<rule, source, version, written, stored, edges, app, messages,
                 task, faults>>

\* The target is written, which removes the edges that start at it.
TargetWritten(n) ==
  /\ target[n].inc > 0
  /\ written' = [written EXCEPT ![n] = @ \cup {target[n].inc}]
  /\ edges' = IF rule.from = "other" THEN edges \ {<<n, target[n].inc>>} ELSE edges
  /\ UNCHANGED <<rule, source, target, names, version, stored, app, messages,
                 task, turns, faults, disturbed, unsure>>

\* BigCache drops an entry.
Evict(n) ==
  /\ names[n] # 0 /\ Turn
  /\ names' = [names EXCEPT ![n] = 0]
  /\ disturbed' = TRUE
  /\ unsure' = unsure \cup {n}
  /\ UNCHANGED <<rule, source, target, version, written, stored, edges, app, messages,
                 task, faults>>

\* BusinessLabelSyncer gives a resource that lives an application.
JoinApp ==
  /\ source.v > 0 /\ ~source.gone /\ ~app
  /\ app' = TRUE
  /\ UNCHANGED <<rule, source, target, names, version, written, stored, edges,
                 messages, task, turns, faults, disturbed, unsure>>
-----------------------------------------------------------------------------
\* Bug: the old edges are not removed.
ProgramUnswept(type) ==
  IF type = "Deleted" THEN <<"tombstone", "query", "delete">>
  ELSE IF rule.cleans = "before"
       THEN <<"write", "fetch", "queryType", "delete", "lookup">>
       ELSE <<"write", "fetch", "lookup">>

\* What processKafkaMessage and Relationship do for a message: write the vertex,
\* remove its edges, read it back, and do what the handler of the rule does.
Program(type) ==
  IF type = "Deleted" THEN <<"tombstone", "query", "delete">>
  ELSE IF rule.cleans = "before"
       THEN <<"write", "query", "delete", "fetch", "queryType", "delete", "lookup">>
       ELSE <<"write", "query", "delete", "fetch", "lookup">>

\* A message is dropped if it is an update of another version than the cached
\* one, or if the vertex is marked as deleted already.
Skips(m) ==
  \/ m.type = "Updated" /\ version # m.s.v
  \/ m.type = "Deleted" /\ stored.gone

Take(w, m) ==
  /\ w \notin Busy
  /\ messages' = messages \ {m}
  /\ task' = [task EXCEPT ![w] =
       IF Skips(m) THEN Idle
       ELSE [todo |-> Program(m.type), s |-> m.s, found |-> {}, app |-> FALSE, ref |-> NoRef]]
  /\ disturbed' = (disturbed \/ Busy # {})
  /\ UNCHANGED <<rule, source, target, names, version, written, stored, edges, app,
                 turns, faults, unsure>>

At(w, step) == w \in Busy /\ Head(task[w].todo) = step
Now(w, done) == task' = [task EXCEPT ![w] =
                  IF done.todo = <<>> THEN Idle ELSE done]
Rest(w) == [task[w] EXCEPT !.todo = Tail(@)]

\* An error ends the message; it is retried or given up in ResourceSync.
Write(w) ==
  /\ At(w, "write") \/ At(w, "tombstone")
  /\ \/ stored' = task[w].s /\ Now(w, Rest(w)) /\ UNCHANGED <<faults, disturbed>>
     \/ Fault /\ disturbed' = TRUE /\ Now(w, Idle) /\ UNCHANGED stored
  /\ UNCHANGED <<rule, source, target, names, version, written, edges, app, messages,
                 turns, unsure>>

\* cleanupAllOutgoingEdgesWithExclusions, CleanupOutgoingEdgesByType: a query,
\* then a deletion of what it found.  Only a deleted resource loses its
\* application.  An error of the query leaves everything as it is.
Kept(w) == ~task[w].s.gone
Outgoing(w) ==
  IF rule.from = "self" THEN edges
  ELSE {e \in edges :
         At(w, "queryType") /\ task[w].ref # NoRef /\ e[1] = task[w].ref[1]}

Query(w) ==
  /\ At(w, "query") \/ At(w, "queryType")
  /\ \/ Now(w, [Rest(w) EXCEPT !.found = Outgoing(w), !.app = app /\ ~Kept(w)])
        /\ UNCHANGED <<faults, disturbed>>
     \/ Fault /\ disturbed' = TRUE /\ Now(w, [task[w] EXCEPT !.todo = Tail(Tail(@))])
  /\ UNCHANGED <<rule, source, target, names, version, written, stored, edges, app,
                 messages, turns, unsure>>

Remove(w) ==
  /\ At(w, "delete")
  /\ Now(w, Rest(w))
  /\ \/ /\ edges' = edges \ task[w].found
        /\ app' = (app /\ ~task[w].app)
        /\ UNCHANGED <<faults, disturbed>>
     \/ Fault /\ disturbed' = TRUE /\ UNCHANGED <<edges, app>>
  /\ UNCHANGED <<rule, source, target, names, version, written, stored, messages,
                 turns, unsure>>

\* Relationship reads the resource back from the graph.
Fetch(w) ==
  /\ At(w, "fetch")
  /\ \/ Now(w, [Rest(w) EXCEPT !.ref = stored.ref]) /\ UNCHANGED <<faults, disturbed>>
     \/ Fault /\ disturbed' = TRUE /\ Now(w, Idle)
  /\ UNCHANGED <<rule, source, target, names, version, written, stored, edges, app,
                 messages, turns, unsure>>

\* What a lookup goes on with, when it has found an incarnation.
Inserting == IF rule.cleans = "found" THEN <<"queryType", "delete", "insert">>
             ELSE <<"insert">>
Remembering == IF rule.cleans = "found" THEN <<"remember", "queryType", "delete", "insert">>
               ELSE <<"remember", "insert">>
Found(w, i, steps) == Now(w, [task[w] EXCEPT !.ref = <<@[1], i>>, !.todo = steps])

\* lookupUID: the cache, or a query, which does not ask whether a vertex is
\* marked as deleted and takes the first.  Nothing found: no edge.
Lookup(w) ==
  /\ At(w, "lookup")
  /\ LET ref == task[w].ref IN
       \/ ref = NoRef /\ Now(w, Idle) /\ UNCHANGED <<faults, disturbed>>
       \/ /\ ref # NoRef /\ rule.by \in {"uid", "label"}
          /\ Found(w, ref[2], Inserting) /\ UNCHANGED <<faults, disturbed>>
       \/ /\ ref # NoRef /\ rule.by = "name" /\ names[ref[1]] # 0
          /\ Found(w, names[ref[1]], Inserting) /\ UNCHANGED <<faults, disturbed>>
       \/ /\ ref # NoRef
          /\ rule.by = "name" => names[ref[1]] = 0
          /\ rule.by \in {"name", "query"}
          /\ \/ /\ \E i \in written[ref[1]] :
                     Found(w, i, IF rule.by = "name" THEN Remembering ELSE Inserting)
                /\ UNCHANGED <<faults, disturbed>>
             \/ /\ written[ref[1]] = {}
                /\ Now(w, Idle) /\ UNCHANGED <<faults, disturbed>>
             \/ Fault /\ disturbed' = TRUE /\ Now(w, Idle)
  /\ UNCHANGED <<rule, source, target, names, version, written, stored, edges, app,
                 messages, turns, unsure>>

Remember(w) ==
  /\ At(w, "remember")
  /\ names' = [names EXCEPT ![task[w].ref[1]] = task[w].ref[2]]
  /\ Now(w, Rest(w))
  /\ UNCHANGED <<rule, source, target, version, written, stored, edges, app,
                 messages, turns, faults, disturbed, unsure>>

\* insertEdge; an error is logged.
Insert(w) ==
  /\ At(w, "insert") /\ Now(w, Rest(w))
  /\ \/ edges' = edges \cup {task[w].ref} /\ UNCHANGED <<faults, disturbed>>
     \/ Fault /\ disturbed' = TRUE /\ UNCHANGED edges
  /\ UNCHANGED <<rule, source, target, names, version, written, stored, app,
                 messages, turns, unsure>>

Work(w) == Write(w) \/ Query(w) \/ Remove(w) \/ Fetch(w) \/ Lookup(w) \/ Remember(w) \/ Insert(w)

Next ==
  \/ Change \/ Delete \/ JoinApp
  \/ \E n \in Names : TargetAdded(n) \/ TargetDeleted(n) \/ TargetWritten(n) \/ Evict(n)
  \/ \E w \in Workers : Work(w) \/ \E m \in messages : Take(w, m)

Spec == Init /\ [][Next]_vars
-----------------------------------------------------------------------------
Quiet == messages = {} /\ Busy = {}

(* When nothing is left to do, a resource has an edge with what it refers to
   and with nothing else, and none once it is deleted, whatever the rule, the
   messages that were skipped and the state of the cache were.  Left out are
   failed calls, messages of the source that two workers process at the same
   time, and targets that came or went after the source's last change: nothing
   in the code repairs these (disturbed); and targets that the cache has lost,
   for which the graph may give an earlier resource of the name.  Edges that
   start at the other end are not removed with the source's. *)
EdgesMatch ==
  Quiet /\ ~disturbed /\ rule.from = "self" =>
    LET ref == source.ref IN
    /\ source.gone \/ ref = NoRef => edges = {}
    /\ ref # NoRef => \A e \in edges : e[1] = ref[1]
    /\ (~source.gone /\ ref # NoRef /\ rule.by = "name" /\ ref[1] \notin unsure
           /\ target[ref[1]].live)
         => edges = {<<ref[1], target[ref[1]].inc>>}
    /\ (~source.gone /\ rule.by \in {"uid", "label"} /\ ref # NoRef) => edges = {ref}

(* A name is looked up as the resource that has it now, although the graph still
   has the vertices of earlier ones; unless the cache dropped the name, or a
   lookup of it was under way when the name changed hands. *)
NameFound ==
  \A n \in Names \ unsure : target[n].live => names[n] \in {0, target[n].inc}
=============================================================================
