---------------------------- MODULE BusinessApps ----------------------------
(***************************************************************************)
(* The business topology in the graph: an application is a vertex, the     *)
(* workloads that carry its label are its members, and calls between       *)
(* applications are edges.  Three writers share the graph and their        *)
(* caches: BusinessLabelSyncer (workers, buffers, a flush every three      *)
(* seconds), TraceTopologySyncer (spans, a buffer of calls) and            *)
(* FlowTopologySyncer (network flows).                                     *)
(*                                                                         *)
(* All resources here belong to the application Home.  Attributes are the  *)
(* version of the resource's labels; 0 stands for those of a vertex the    *)
(* trace syncer makes up.  Fewer than a hundred items are ever buffered,   *)
(* so only the ticker and Stop flush.                                      *)
(***************************************************************************)
EXTENDS Naturals, Sequences, FiniteSets

CONSTANTS
  Resources,      \* workloads
  Controllers,    \* those of a kind that owns an application
  Apps, Home,     \* applications, and the one the workloads belong to
  BlsWorkers,
  Calls,          \* the pairs of applications of which one calls the other
  MaxChanges,     \* bound on the changes of the workloads
  MaxTroubles     \* bound on failed queries and restarts

VARIABLES
  live,      \* version of each workload; 0 before it exists
  changes,   \* number of changes of the workloads
  gone,      \* workloads that were deleted
  topic,     \* messages of business-workloads no worker has taken
  worker,    \* step and message of each worker
  inflight,  \* workloads a worker is at
  seenEdge,  \* cache e:<uid>-><app>
  seenBase,  \* relationCache bls-hash: and bls-owner: of Home
  buffer,    \* vertexBuffer, edgeBuffer and deleteEdgeBuffer
  flush,     \* the buffers being written, and the step
  vertex,    \* vertices of applications: present, attributes, with an owner
  member,    \* BelongsToApp edges to Home
  known,     \* relationCache bizapp: and bizowner:
  span,      \* the call the trace syncer is at, and its step
  calls,     \* calls in edgeBuffer, being written, in the cache, in the graph
  troubles,  \* number of failed queries and restarts
  excused    \* history: workloads that a race or a failure kept from the graph

blsVars == <<live, changes, gone, topic, worker, inflight, seenEdge, seenBase,
             buffer, flush, member, excused>>
traceVars == <<known, span, calls>>
vars == <<blsVars, traceVars, vertex, troubles>>

Idle == [step |-> "idle"]
NoVertex == [there |-> FALSE, attrs |-> 0, owned |-> FALSE]
NothingSeen == [attrs |-> 0, owned |-> FALSE]
Empty == [vertices |-> <<>>, edges |-> {}, deletes |-> {}]
NoCalls == [buffered |-> {}, writing |-> {}, cached |-> {}, written |-> {}]

Init ==
  /\ live = [r \in Resources |-> 0] /\ changes = 0 /\ gone = {} /\ topic = <<>>
  /\ worker = [w \in BlsWorkers |-> Idle] /\ inflight = {}
  /\ seenEdge = {} /\ seenBase = NothingSeen
  /\ buffer = Empty /\ flush = [step |-> "none", items |-> Empty]
  /\ vertex = [a \in Apps |-> NoVertex] /\ member = {}
  /\ known = {} /\ span = Idle /\ calls = NoCalls
  /\ troubles = 0 /\ excused = {}

Trouble == troubles < MaxTroubles /\ troubles' = troubles + 1

\* A worker of the synchroniser is done with a change of the workload and sends
\* it to the publishing goroutine, unless that one's channel is full.  Two
\* workers may send changes of one workload in the wrong order.
Sent(r, type) ==
  LET m == [r |-> r, type |-> type, version |-> live'[r]]
      n == Len(topic)
  IN
  \/ topic' = Append(topic, m) /\ UNCHANGED excused
  \/ UNCHANGED topic /\ excused' = excused \cup {r}
  \/ /\ n > 0 /\ topic[n].r = r
     /\ topic' = SubSeq(topic, 1, n - 1) \o <<m, topic[n]>>
     /\ excused' = excused \cup {r}

Change(r) ==
  /\ r \notin gone /\ changes < MaxChanges
  /\ changes' = changes + 1
  /\ \/ live' = [live EXCEPT ![r] = @ + 1] /\ Sent(r, "Updated") /\ UNCHANGED gone
     \/ /\ live[r] > 0 /\ UNCHANGED live
        /\ gone' = gone \cup {r} /\ Sent(r, "Deleted")
  /\ UNCHANGED <<worker, inflight, seenEdge, seenBase, buffer, flush,
                 member, vertex, troubles, traceVars>>

Busy == {w \in BlsWorkers : worker[w] # Idle}

\* consumeLoop and the head of processWorkloadMessage.  A worker commits the
\* message when it returns, also when the workload is at another worker.
Begin(w) ==
  /\ worker[w] = Idle /\ topic # <<>>
  /\ topic' = Tail(topic)
  /\ LET m == Head(topic) IN
       IF m.r \in inflight
       THEN /\ excused' = IF \E v \in Busy : worker[v].m.r = m.r
                          THEN excused \cup {m.r} ELSE excused
            /\ UNCHANGED <<worker, inflight>>
       ELSE /\ inflight' = inflight \cup {m.r}
            /\ worker' = [worker EXCEPT ![w] =
                 [step |-> IF m.type = "Updated" THEN "sync" ELSE "remove", m |-> m]]
            /\ UNCHANGED excused
  /\ UNCHANGED <<live, changes, gone, seenEdge, seenBase, buffer, flush, member,
                 vertex, troubles, traceVars>>

\* Bug: a worker that is done leaves its workload marked as in flight.
Finished(w) == worker' = [worker EXCEPT ![w] = Idle] /\ UNCHANGED inflight

Done(w) == /\ worker' = [worker EXCEPT ![w] = Idle]
           /\ inflight' = inflight \ {worker[w].m.r}

\* syncApp
VertexItem(m) == [attrs |-> m.version, owned |-> m.r \in Controllers]
NeedsVertex(m) ==
  \/ seenBase.attrs # m.version
  \/ m.r \in Controllers /\ ~seenBase.owned

SyncApp(w) ==
  /\ worker[w].step = "sync"
  /\ LET m == worker[w].m IN
       /\ buffer' = [buffer EXCEPT
            !.edges = IF m.r \in seenEdge THEN @ ELSE @ \cup {m.r},
            !.vertices = IF NeedsVertex(m) THEN Append(@, VertexItem(m)) ELSE @]
       /\ seenEdge' = seenEdge \cup {m.r}
  /\ Done(w)
  /\ UNCHANGED <<live, changes, gone, topic, seenBase, flush, member, excused, vertex,
                 troubles, traceVars>>

\* removeApp: does the edge exist, buffer its deletion; count what is left;
\* delete the vertex.  An edge that is still buffered does not exist.
HasEdge(w) ==
  /\ worker[w].step = "remove"
  /\ LET r == worker[w].m.r IN
       \/ /\ r \in member
          /\ buffer' = [buffer EXCEPT !.deletes = @ \cup {r}]
          /\ worker' = [worker EXCEPT ![w].step = "count"]
          /\ UNCHANGED <<inflight, excused, troubles>>
       \/ /\ r \notin member /\ Done(w)
          /\ excused' = IF r \in buffer.edges \cup flush.items.edges
                        THEN excused \cup {r} ELSE excused
          /\ UNCHANGED <<buffer, troubles>>
       \/ /\ r \in member /\ Trouble /\ Done(w)
          /\ excused' = excused \cup {r}
          /\ UNCHANGED buffer
  /\ UNCHANGED <<live, changes, gone, topic, seenEdge, seenBase, flush, member, vertex,
                 traceVars>>

CountEdges(w) ==
  /\ worker[w].step = "count"
  /\ IF member = {}
     THEN /\ worker' = [worker EXCEPT ![w].step = "drop"]
          /\ UNCHANGED inflight
     ELSE Done(w)
  /\ UNCHANGED <<live, changes, gone, topic, seenEdge, seenBase, buffer, flush, member,
                 excused, vertex, troubles, traceVars>>

DropVertex(w) ==
  /\ worker[w].step = "drop"
  /\ vertex' = [vertex EXCEPT ![Home] = NoVertex]
  /\ Done(w)
  /\ UNCHANGED <<live, changes, gone, topic, seenEdge, seenBase, buffer, flush, member,
                 excused, troubles, traceVars>>

\* flushBuffers takes the buffers, then writes vertices, edges and deletions;
\* one that fails does not stop the next, and nothing is put back.
FlushStart ==
  /\ flush.step = "none" /\ buffer # Empty
  /\ flush' = [step |-> "vertices", items |-> buffer]
  /\ buffer' = Empty
  /\ UNCHANGED <<live, changes, gone, topic, worker, inflight, seenEdge, seenBase,
                 member, excused, vertex, troubles, traceVars>>

\* batchUpsertBusinessApp: the first item of a controller is written over the
\* vertex; without one the first item, if there is no vertex.
Owned(items) == SelectSeq(items, LAMBDA i : i.owned)
Upserted(items) ==
  IF Owned(items) # <<>>
  THEN [there |-> TRUE, attrs |-> Owned(items)[1].attrs, owned |-> TRUE]
  ELSE IF items # <<>> /\ ~vertex[Home].there
       THEN [there |-> TRUE, attrs |-> items[1].attrs, owned |-> FALSE]
       ELSE vertex[Home]
Remembered(items) ==
  IF items = <<>> THEN seenBase
  ELSE [attrs |-> items[Len(items)].attrs,
        owned |-> seenBase.owned \/ Owned(items) # <<>>]

FlushVertices ==
  /\ flush.step = "vertices"
  /\ flush' = [flush EXCEPT !.step = "edges"]
  /\ \/ /\ vertex' = [vertex EXCEPT ![Home] = Upserted(flush.items.vertices)]
        /\ seenBase' = Remembered(flush.items.vertices)
        /\ UNCHANGED troubles
     \/ flush.items.vertices # <<>> /\ Trouble /\ UNCHANGED <<vertex, seenBase>>
  /\ UNCHANGED <<live, changes, gone, topic, worker, inflight, seenEdge, buffer,
                 member, excused, traceVars>>

FlushEdges ==
  /\ flush.step = "edges"
  /\ flush' = [flush EXCEPT !.step = "deletes"]
  /\ \/ /\ member' = member \cup flush.items.edges
        /\ UNCHANGED <<excused, troubles>>
     \/ /\ flush.items.edges # {} /\ Trouble
        /\ excused' = excused \cup flush.items.edges
        /\ UNCHANGED member
  /\ UNCHANGED <<live, changes, gone, topic, worker, inflight, seenEdge, seenBase,
                 buffer, vertex, traceVars>>

FlushDeletes ==
  /\ flush.step = "deletes"
  /\ flush' = [step |-> "none", items |-> Empty]
  /\ \/ /\ member' = member \ flush.items.deletes
        /\ UNCHANGED <<excused, troubles>>
     \/ /\ flush.items.deletes # {} /\ Trouble
        /\ excused' = excused \cup flush.items.deletes
        /\ UNCHANGED member
  /\ UNCHANGED <<live, changes, gone, topic, worker, inflight, seenEdge, seenBase,
                 buffer, vertex, traceVars>>

Flush == FlushStart \/ FlushVertices \/ FlushEdges \/ FlushDeletes

\* A span names two applications.  lookupOrInsertBusinessApp takes the UID from
\* the cache, else from the graph; a query that finds nothing or fails is
\* followed by an insertion, which writes over the vertex.  A caller is first
\* looked up as an owner, through a cache of its own, which known stands for too.
CallerOf(p) == p[1]   \* the owner or service of the span's resource
PeerOf(p) == p[2]     \* the first of six attributes, or the known service of
                      \* an address; a span without either is skipped
Span(p) ==
  /\ span = Idle
  /\ span' = [step |-> "lookup", todo |-> <<CallerOf(p), PeerOf(p)>>, call |-> p]
  /\ UNCHANGED <<blsVars, vertex, known, calls, troubles>>

Next2(s) == IF Len(s.todo) > 1 THEN [s EXCEPT !.step = "lookup", !.todo = Tail(@)]
            ELSE [s EXCEPT !.step = "edge", !.todo = <<>>]

Lookup ==
  /\ span.step = "lookup"
  /\ LET a == Head(span.todo) IN
       \/ /\ a \in known \/ vertex[a].there
          /\ known' = known \cup {a}
          /\ span' = Next2(span)
          /\ UNCHANGED troubles
       \/ /\ a \notin known /\ ~vertex[a].there
          /\ span' = [span EXCEPT !.step = "insert"]
          /\ UNCHANGED <<known, troubles>>
       \/ /\ a \notin known /\ vertex[a].there /\ Trouble
          /\ span' = [span EXCEPT !.step = "insert"]
          /\ UNCHANGED known
  /\ UNCHANGED <<blsVars, vertex, calls>>

Insert ==
  /\ span.step = "insert"
  /\ LET a == Head(span.todo) IN
       \/ /\ vertex' = [vertex EXCEPT ![a] = [there |-> TRUE, attrs |-> 0, owned |-> FALSE]]
          /\ known' = known \cup {a}
          /\ span' = Next2(span)
          /\ UNCHANGED troubles
       \/ Trouble /\ span' = Idle /\ UNCHANGED <<vertex, known>>
  /\ UNCHANGED <<blsVars, calls>>

\* upsertCallEdge; FlowTopologySyncer calls it for applications with an owner.
Buffered(c) == IF c \in calls.cached THEN calls
               ELSE [calls EXCEPT !.buffered = @ \cup {c}]
CallEdge ==
  /\ span.step = "edge" /\ span' = Idle
  /\ calls' = Buffered(span.call)
  /\ UNCHANGED <<blsVars, vertex, known, troubles>>

Flow(p) ==
  /\ \A i \in 1..2 : vertex[p[i]].owned
  /\ p \notin calls.buffered \cup calls.cached
  /\ calls' = Buffered(p)
  /\ UNCHANGED <<blsVars, vertex, known, span, troubles>>

\* TraceTopologySyncer.flushBuffer; a chunk that fails is dropped.
CallsStart ==
  /\ calls.buffered # {} /\ calls.writing = {}
  /\ calls' = [calls EXCEPT !.buffered = {}, !.writing = calls.buffered]
  /\ UNCHANGED <<blsVars, vertex, known, span, troubles>>

\* Bug: a chunk that fails is remembered as written.
DroppedAsWritten == [calls EXCEPT !.writing = {}, !.cached = @ \cup calls.writing]

Dropped == [calls EXCEPT !.writing = {}]

CallsWrite ==
  /\ calls.writing # {}
  /\ \/ /\ calls' = [calls EXCEPT !.writing = {}, !.cached = @ \cup calls.writing,
                                  !.written = @ \cup calls.writing]
        /\ UNCHANGED troubles
     \/ Trouble /\ calls' = Dropped
  /\ UNCHANGED <<blsVars, vertex, known, span>>

\* Caches and buffers are lost; what a worker took was committed.  The trace
\* syncer warms its cache from the graph: warmupBusinessAppCache.
Restart ==
  /\ Trouble
  /\ worker' = [w \in BlsWorkers |-> Idle] /\ inflight' = {}
  /\ seenEdge' = {} /\ seenBase' = [attrs |-> vertex[Home].attrs, owned |-> FALSE]
  /\ buffer' = Empty /\ flush' = [step |-> "none", items |-> Empty]
  /\ excused' = excused \cup inflight \cup buffer.edges \cup buffer.deletes
                        \cup flush.items.edges \cup flush.items.deletes
  /\ known' = {a \in Apps : vertex[a].there} /\ span' = Idle
  /\ calls' = [NoCalls EXCEPT !.written = calls.written]
  /\ UNCHANGED <<live, changes, gone, topic, member, vertex>>

BlsStep(w) == Begin(w) \/ SyncApp(w) \/ HasEdge(w) \/ CountEdges(w) \/ DropVertex(w)
TraceStep == Lookup \/ Insert \/ CallEdge \/ CallsStart \/ CallsWrite

Next ==
  \/ \E r \in Resources : Change(r)
  \/ \E w \in BlsWorkers : BlsStep(w)
  \/ Flush \/ TraceStep \/ Restart
  \/ \E p \in Calls : Span(p) \/ Flow(p)

Spec == Init /\ [][Next]_vars

Quiet ==
  /\ topic = <<>> /\ buffer = Empty /\ flush.step = "none"
  /\ \A w \in BlsWorkers : worker[w] = Idle

(* When the syncer has nothing left to do, the members of an application are
   the workloads that exist and carry its label, whatever the order in which
   the workers, the buffers and the flush took their events, and after
   restarts.  Left out are workloads a message of which was dropped (by a full
   channel, or by processWorkloadMessage while another worker was at it) or
   overtaken, a query of which failed, or that were deleted while their edge
   was in a buffer. *)
MembersMatch ==
  Quiet => \A r \in Resources \ excused :
             r \in member <=> live[r] > 0 /\ r \notin gone

(* A call that upsertCallEdge will never write again is in the graph: the cache
   must not run ahead of the flush, which drops what it could not write. *)
CallsWritten == calls.cached \subseteq calls.written

(* An application whose workloads are all gone is removed from the graph, which
   is what removeApp does when it counts no edge any more. *)
OrphanRemoved ==
  Quiet /\ (\A r \in Resources : r \in gone \ excused) => ~vertex[Home].there
=============================================================================
