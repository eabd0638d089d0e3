----------------------------- MODULE GraphSearch -----------------------------
(* The topology search around one resource (services/getResource.go,          *)
(* SearchResourceRelationship): hop by hop in both directions, then the        *)
(* properties of the vertices found, then the edges between those that live.  *)
(* Every query may fail and is then skipped; the graph may change in between.  *)
EXTENDS Naturals, FiniteSets, FiniteSetsExt

CONSTANTS
  Nodes, Types,           \* vertices and the traversed edge types
  Depths, Wanted,         \* depths asked for; nodes of a target kind, Nodes for any
  MaxEdges, Limit,        \* edges of a graph; rows of one GO
  MaxChanges, MaxTroubles \* bounds

VARIABLES
  joined, alive,  \* the graph: edges <<from, to, type>>, vertices not deleted
  search,         \* the request
  everAlive,      \* vertices that lived at some time since it began
  steady,         \* nothing changed, failed or was cut off since
  moves, mishaps

vars == <<joined, alive, search, everAlive, steady, moves, mishaps>>

NoSearch == [stage |-> "idle", start |-> {}, depth |-> 0, wanted |-> {}, hop |-> 0,
             todo |-> {}, next |-> {}, seen |-> {}, raw |-> {}, nodes |-> {}, edges |-> {}]

Init ==
  /\ joined \in UNION {kSubset(k, Nodes \X Nodes \X Types) : k \in 0..MaxEdges}
  /\ alive = Nodes /\ search = NoSearch
  /\ everAlive = alive /\ steady = TRUE /\ moves = 0 /\ mishaps = 0

Fails == mishaps < MaxTroubles /\ mishaps' = mishaps + 1 /\ steady' = FALSE

-----------------------------------------------------------------------------
(* The writers of the graph.                                                 *)
Delete(n) ==
  /\ moves < MaxChanges /\ moves' = moves + 1 /\ n \in alive
  /\ alive' = alive \ {n} /\ steady' = FALSE
  /\ UNCHANGED <<joined, search, everAlive, mishaps>>
Rejoin(e, f) ==
  /\ moves < MaxChanges /\ moves' = moves + 1 /\ e \in joined /\ f \notin joined
  /\ joined' = (joined \ {e}) \cup {f} /\ steady' = FALSE
  /\ UNCHANGED <<alive, search, everAlive, mishaps>>

-----------------------------------------------------------------------------
(* searchByResourceID.                                                       *)
Directions == {"forward", "reversely"}
Level(ns) == ns \X Directions
Start(s, d, w) ==
  /\ search.stage = "idle"
  /\ search' = [NoSearch EXCEPT !.stage = "hops", !.start = {s}, !.depth = d,
       !.wanted = w, !.hop = 1, !.todo = Level({s}), !.seen = {s}]
  /\ everAlive' = alive /\ steady' = TRUE
  /\ UNCHANGED <<joined, alive, moves, mishaps>>

\* The rows of one GO: the far end and the type, whichever way the edge goes.
Hits(n, dir) ==
  IF dir = "forward" THEN {<<n, e[2], e[3]>> : e \in {f \in joined : f[1] = n}}
  ELSE {<<n, e[1], e[3]>> : e \in {f \in joined : f[2] = n}}
Rows(n, dir) == kSubset(IF Cardinality(Hits(n, dir)) <= Limit THEN Cardinality(Hits(n, dir))
                        ELSE Limit, Hits(n, dir))
Go(n, dir, rows) ==
  LET new == {r[2] : r \in rows} \ search.seen IN
  /\ search.stage = "hops"
  /\ search' = [search EXCEPT !.todo = @ \ {<<n, dir>>}, !.next = @ \cup new,
       !.seen = @ \cup new, !.raw = @ \cup rows]
  /\ steady' = (steady /\ rows = Hits(n, dir))
  /\ UNCHANGED <<joined, alive, everAlive, moves, mishaps>>
GoFails(n, dir) ==
  /\ search.stage = "hops" /\ Fails
  /\ search' = [search EXCEPT !.todo = @ \ {<<n, dir>>}]
  /\ UNCHANGED <<joined, alive, everAlive, moves>>

DeeperThan(h, d) == h <= d
Deeper(h, d) == h < d
Hop ==
  /\ search.stage = "hops" /\ search.todo = {}
  /\ search' = IF Deeper(search.hop, search.depth) /\ search.next # {}
       THEN [search EXCEPT !.hop = @ + 1, !.todo = Level(search.next), !.next = {}]
       ELSE [search EXCEPT !.stage = "fetch", !.next = {}]
  /\ UNCHANGED <<joined, alive, everAlive, steady, moves, mishaps>>

AnyNode(ns) == ns
LiveOf(ns) == ns \cap alive
Fetch ==
  /\ search.stage = "fetch"
  /\ search' = [search EXCEPT !.stage = "build", !.nodes = LiveOf(search.seen)]
  /\ UNCHANGED <<joined, alive, everAlive, steady, moves, mishaps>>
FetchFails ==
  /\ search.stage = "fetch" /\ Fails
  /\ search' = [search EXCEPT !.stage = "build"]
  /\ UNCHANGED <<joined, alive, everAlive, moves>>

\* Edges between fetched vertices, one for each pair and type; vertices without
\* an edge only when there is no edge at all; then those of the target kind.
Between(raw, ns) == {<<{r[1], r[2]}, r[3]>> : r \in {q \in raw : q[1] \in ns /\ q[2] \in ns}}
Connected(ns, es) == IF es = {} THEN ns ELSE {n \in ns : \E e \in es : n \in e[1]}
Build ==
  /\ search.stage = "build"
  /\ LET es == Between(search.raw, search.nodes)
     IN search' = [search EXCEPT !.stage = "answered", !.edges = es,
          !.nodes = Connected(@, es) \cap search.wanted]
  /\ UNCHANGED <<joined, alive, everAlive, steady, moves, mishaps>>
Answer ==
  /\ search.stage = "answered" /\ search' = NoSearch
  /\ UNCHANGED <<joined, alive, everAlive, steady, moves, mishaps>>

Next ==
  \/ \E n \in Nodes : Delete(n)
  \/ \E e \in joined, f \in Nodes \X Nodes \X Types : Rejoin(e, f)
  \/ \E s \in Nodes, d \in Depths, w \in Wanted : Start(s, d, w)
  \/ \E q \in search.todo : GoFails(q[1], q[2]) \/ \E rows \in Rows(q[1], q[2]) : Go(q[1], q[2], rows)
  \/ Hop \/ Fetch \/ FetchFails \/ Build \/ Answer

Spec == Init /\ [][Next]_vars

-----------------------------------------------------------------------------
(* What the answer should be, from the graph itself.                         *)
Neighbours(ns) == {m \in Nodes : \E e \in joined : (e[1] \in ns /\ e[2] = m) \/ (e[2] \in ns /\ e[1] = m)}
Within ==
  LET w[i \in 0..Max(Depths)] ==
        IF i = 0 THEN search.start ELSE w[i - 1] \cup Neighbours(w[i - 1])
  IN w
WithinEdges ==
  {<<{e[1], e[2]}, e[3]>> : e \in {f \in joined : {f[1], f[2]} \subseteq alive
     /\ {f[1], f[2]} \cap Within[search.depth - 1] # {}}}
WithinNodes ==
  LET ends == UNION {e[1] : e \in WithinEdges}
  IN IF ends = {} THEN Within[search.depth] \cap alive ELSE ends

\* When the graph stands still, no query fails and none is cut off, the answer
\* holds exactly the edges that a path of at most depth hops ends with, in
\* whichever direction the edges go and however the hits of the hops overlap.
SearchExact ==
  (search.stage = "answered" /\ steady) =>
    /\ search.edges = WithinEdges
    /\ search.nodes = WithinNodes \cap search.wanted

\* Whatever changes or fails during the search, it shows no vertex, and no edge
\* to one, that was deleted before the search began.
DeletedNotShown ==
  search.stage = "answered" =>
    search.nodes \cup (UNION {e[1] : e \in search.edges}) \subseteq everAlive
=============================================================================
