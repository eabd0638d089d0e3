--------------------------- MODULE PlatformProofs ---------------------------
(* The parts of MCPlatform for every value of the constants: lists, metrics, *)
(* start-up and shutdown, logins and tokens, inspections and conversations.  *)
EXTENDS MCPlatform, FiniteSetTheorems, NaturalsInduction, WellFoundedInduction, TLAPS

allVars == <<part, graphVars, platformVars>>

-----------------------------------------------------------------------------
(* The lists of resources and their cache.                                   *)

Listed == Namespaced \cup Clusterwide
Lookup == [stage: {"idle", "namespaces", "cluster", "track", "put"},
           query: Queries \cup {""}, rows: SUBSET Listed, seen: Nat,
           steady: SUBSET Listed, partial: BOOLEAN, crossed: BOOLEAN]
Clearing == [stage: {"idle", "kinds", "collect", "delete", "reset"}, change: Nat,
             keys: SUBSET Queries]
ListType ==
  /\ world \subseteq Listed /\ worldVersion \in Nat
  /\ cleared \in Nat /\ cleared <= worldVersion
  /\ request \in [ListRequests -> Lookup]
  /\ cached \in [Queries -> Lookup \cup {Nothing}]
  /\ tracked \subseteq Queries
  /\ clearing \in [ListWorkers -> Clearing]
  /\ \A w \in ListWorkers : clearing[w].change <= worldVersion

\* What a request holds of what was there all the while.
Reads(x) ==
  /\ x.stage # "idle" => /\ x.query \in Queries
                         /\ x.steady \subseteq Lists!Scope(x.query) \cap world
  /\ x.stage = "cluster" => x.query = "all" /\ x.steady \cap Namespaced \subseteq x.rows
  /\ x.stage \in {"track", "put"} => x.partial \/ x.steady \subseteq x.rows
ReadInv ==
  /\ \A r \in ListRequests : Reads(request[r])
  /\ \A q \in Queries : cached[q] # Nothing =>
       cached[q].partial \/ cached[q].steady \subseteq cached[q].rows

\* A list on its way that met no invalidation is as new as every change the
\* invalidation of which has passed the point at which it would have met it ...
OnItsWay(x) ==
  (x.stage \in {"cluster", "track", "put"} /\ ~x.crossed) =>
    /\ cleared <= x.seen
    /\ \A w \in ListWorkers :
         (clearing[w].stage \in {"delete", "reset"}
            \/ (clearing[w].stage = "collect" /\ x.query = "kinds")) =>
           clearing[w].change <= x.seen
    /\ x.stage = "put" =>
         /\ \A w \in ListWorkers : clearing[w].stage \notin {"delete", "reset"}
         /\ Lists!Tracks(x.query) => x.query \in tracked
\* ... and a stored one is recorded, and deleted by every invalidation that has
\* already copied the recorded keys.
Stored(q) ==
  (cached[q] # Nothing /\ ~cached[q].crossed) =>
    /\ cleared <= cached[q].seen
    /\ q = "kinds" => \A w \in ListWorkers :
         clearing[w].stage \in {"collect", "delete", "reset"} =>
           clearing[w].change <= cached[q].seen
    /\ q # "kinds" =>
         /\ q \in tracked
         /\ \A w \in ListWorkers : /\ clearing[w].stage # "reset"
                                   /\ clearing[w].stage = "delete" => q \in clearing[w].keys
FreshInv ==
  /\ \A r \in ListRequests : OnItsWay(request[r])
  /\ \A q \in Queries : Stored(q)
ListInv == ListType /\ ReadInv /\ FreshInv

LEMMA ListSteps ==
  ASSUME part = "lists", [Next]_allVars
  PROVE  part' = part /\ (Lists!Next \/ UNCHANGED listVars)
BY DEF Next, GraphNext, PlatformNext, allVars, graphVars, platformVars

LEMMA ListStart ==
  ASSUME Init, part = "lists"
  PROVE  ListInv
<1>1. Lists!Init
  BY DEF Init, GraphInit
<1>2. /\ world \subseteq Listed /\ worldVersion = 0 /\ cleared = 0 /\ tracked = {}
      /\ cached = [q \in Queries |-> Nothing]
      /\ request = [r \in ListRequests |-> Lists!Idle]
      /\ clearing = [w \in ListWorkers |-> Lists!Resting]
  BY <1>1 DEF Lists!Init, Listed
<1>3. Lists!Idle \in Lookup /\ Lists!Idle.stage = "idle"
  BY DEF Lists!Idle, Lookup
<1>4. Lists!Resting \in Clearing /\ Lists!Resting.change = 0
  BY DEF Lists!Resting, Clearing
<1>5. ListType
  BY <1>2, <1>3, <1>4 DEF ListType
<1>6. ReadInv
  BY <1>2, <1>3 DEF ReadInv, Reads
<1>7. FreshInv
  BY <1>2, <1>3 DEF FreshInv, OnItsWay, Stored
<1>8. QED
  BY <1>5, <1>6, <1>7 DEF ListInv

\* A request that goes on by itself: the world, the cache and the workers stand still.
LEMMA RequestGoesOn ==
  ASSUME ListInv, NEW r \in ListRequests, NEW x \in Lookup,
         request' = [request EXCEPT ![r] = x],
         UNCHANGED <<world, worldVersion, cached, clearing, cleared>>,
         tracked \subseteq tracked', tracked' \subseteq Queries,
         Reads(x), OnItsWay(x)'
  PROVE  ListInv'
<1>1. request'[r] = x /\ \A o \in ListRequests : o # r => request'[o] = request[o]
  BY DEF ListInv, ListType
<1>2. ListType'
  BY DEF ListInv, ListType
<1>3. ReadInv'
  <2>1. \A o \in ListRequests : Reads(request'[o])
    BY <1>1 DEF ListInv, ReadInv
  <2>2. QED
    BY <2>1 DEF ListInv, ReadInv, Reads
<1>4. FreshInv'
  <2>1. ASSUME NEW o \in ListRequests PROVE OnItsWay(request[o])'
    <3>1. CASE o = r
      BY <1>1, <3>1 DEF OnItsWay
    <3>2. CASE o # r
      <4>1. OnItsWay(request[o]) /\ request'[o] = request[o]
        BY <1>1, <3>2 DEF ListInv, FreshInv
      <4>2. QED
        BY <4>1 DEF OnItsWay
    <3>3. QED
      BY <3>1, <3>2
  <2>2. \A q \in Queries : Stored(q)'
    BY DEF ListInv, FreshInv, Stored
  <2>3. QED
    BY <2>1, <2>2 DEF FreshInv
<1>5. QED
  BY <1>2, <1>3, <1>4 DEF ListInv

LEMMA RequestStep ==
  ASSUME ListInv, NEW r \in ListRequests,
         \/ \E q \in Queries : Lists!Ask(r, q)
         \/ Lists!Rows(r) \/ Lists!RowsFail(r) \/ Lists!Union(r) \/ Lists!Track(r)
  PROVE  ListInv'
<1> DEFINE y == request[r]
<1>1. /\ y \in Lookup /\ Reads(y) /\ OnItsWay(y)
      /\ world \subseteq Listed /\ worldVersion \in Nat /\ cleared <= worldVersion
      /\ tracked \subseteq Queries /\ clearing \in [ListWorkers -> Clearing]
      /\ \A w \in ListWorkers : clearing[w].change <= worldVersion
      /\ request \in [ListRequests -> Lookup]
  BY DEF ListInv, ListType, ReadInv, FreshInv
<1>2. ASSUME NEW q \in Queries, Lists!Ask(r, q) PROVE ListInv'
  <2>1. Lists!Idle \in Lookup
    BY DEF Lists!Idle, Lookup
  <2> DEFINE goes == [Lists!Idle EXCEPT !.stage = "namespaces", !.query = q,
                                        !.steady = world \cap Lists!Scope(q)]
  <2>2. PICK x \in Lookup :
          /\ x = goes /\ x.stage = "namespaces" /\ x.query = q
          /\ x.steady = world \cap Lists!Scope(q)
    <3>1. /\ goes \in Lookup /\ goes.stage = "namespaces" /\ goes.query = q
          /\ goes.steady = world \cap Lists!Scope(q)
      BY <1>1, <2>1 DEF Lookup
    <3> HIDE DEF goes
    <3>2. QED
      BY <3>1
  <2>3. request' = [request EXCEPT ![r] = x] /\ tracked' = tracked
        /\ UNCHANGED <<world, worldVersion, cached, clearing, cleared>>
    BY <1>2, <2>2 DEF Lists!Ask
  <2>4. Reads(x) /\ OnItsWay(x)'
    BY <2>2 DEF Reads, OnItsWay
  <2>5. QED
    BY <1>1, <2>2, <2>3, <2>4, RequestGoesOn
<1>3. CASE Lists!Rows(r)
  <2> DEFINE to == IF y.query = "all" THEN "cluster" ELSE "track"
             got == world \cap (IF y.query = "all" THEN Namespaced ELSE Lists!Scope(y.query))
             goes == [y EXCEPT !.seen = worldVersion, !.rows = got, !.stage = to]
  <2>1. y.stage = "namespaces" /\ tracked' = tracked
        /\ request' = [request EXCEPT ![r] = goes]
        /\ UNCHANGED <<world, worldVersion, cached, clearing, cleared>>
    BY <1>1, <1>3 DEF Lists!Rows, Lists!At, Lookup
  <2>2. PICK x \in Lookup :
          /\ x = goes /\ x.seen = worldVersion /\ x.rows = got /\ x.stage = to
          /\ x.query = y.query /\ x.steady = y.steady /\ x.crossed = y.crossed
    <3>1. /\ goes \in Lookup /\ goes.seen = worldVersion /\ goes.rows = got /\ goes.stage = to
          /\ goes.query = y.query /\ goes.steady = y.steady /\ goes.crossed = y.crossed
      BY <1>1 DEF Lookup
    <3> HIDE DEF goes
    <3>2. QED
      BY <3>1
  <2>3. y.query \in Queries /\ y.steady \subseteq Lists!Scope(y.query) \cap world
    BY <1>1, <2>1 DEF Reads
  <2>4. Reads(x)
    BY <2>2, <2>3 DEF Reads
  <2>5. OnItsWay(x)'
    BY <1>1, <2>1, <2>2 DEF OnItsWay
  <2>6. QED
    BY <1>1, <2>1, <2>2, <2>4, <2>5, RequestGoesOn
<1>4. CASE Lists!RowsFail(r)
  <2>1. request' = [request EXCEPT ![r] = Lists!Idle] /\ tracked' = tracked
        /\ UNCHANGED <<world, worldVersion, cached, clearing, cleared>>
    BY <1>4 DEF Lists!RowsFail, Lists!AnswersEmpty, Lists!Trouble
  <2>2. Lists!Idle \in Lookup /\ Lists!Idle.stage = "idle"
    BY DEF Lists!Idle, Lookup
  <2>3. Reads(Lists!Idle) /\ OnItsWay(Lists!Idle)'
    BY <2>2 DEF Reads, OnItsWay, Lists!Idle
  <2>4. QED
    BY <1>1, <2>1, <2>2, <2>3, RequestGoesOn
<1>5. CASE Lists!Union(r)
  <2> DEFINE whole == [y EXCEPT !.rows = @ \cup (world \cap Clusterwide), !.stage = "track"]
             lacks == [y EXCEPT !.partial = TRUE, !.stage = "track"]
  <2>1. y.stage = "cluster" /\ tracked' = tracked
        /\ (request' = [request EXCEPT ![r] = whole] \/ request' = [request EXCEPT ![r] = lacks])
        /\ UNCHANGED <<world, worldVersion, cached, clearing, cleared>>
    BY <1>1, <1>5 DEF Lists!Union, Lists!At, Lookup
  <2>2. y.query = "all" /\ y.steady \cap Namespaced \subseteq y.rows
        /\ y.query \in Queries /\ y.steady \subseteq Lists!Scope(y.query) \cap world
    BY <1>1, <2>1 DEF Reads
  <2>3. Lists!Scope("all") = Namespaced \cup Clusterwide
    BY DEF Lists!Scope
  <2>4. PICK x \in Lookup :
          /\ x = whole /\ x.stage = "track" /\ x.query = y.query
          /\ x.steady = y.steady /\ x.rows = y.rows \cup (world \cap Clusterwide)
          /\ x.seen = y.seen /\ x.crossed = y.crossed
    <3>1. /\ whole \in Lookup /\ whole.stage = "track" /\ whole.query = y.query
          /\ whole.steady = y.steady /\ whole.rows = y.rows \cup (world \cap Clusterwide)
          /\ whole.seen = y.seen /\ whole.crossed = y.crossed
      BY <1>1 DEF Lookup, Listed
    <3> HIDE DEF whole
    <3>2. QED
      BY <3>1
  <2>5. PICK z \in Lookup :
          /\ z = lacks /\ z.stage = "track" /\ z.query = y.query
          /\ z.steady = y.steady /\ z.partial /\ z.seen = y.seen /\ z.crossed = y.crossed
    <3>1. /\ lacks \in Lookup /\ lacks.stage = "track" /\ lacks.query = y.query
          /\ lacks.steady = y.steady /\ lacks.partial
          /\ lacks.seen = y.seen /\ lacks.crossed = y.crossed
      BY <1>1 DEF Lookup
    <3> HIDE DEF lacks
    <3>2. QED
      BY <3>1
  <2>6. Reads(x) /\ Reads(z)
    BY <2>2, <2>3, <2>4, <2>5 DEF Reads
  <2>7. OnItsWay(x)' /\ OnItsWay(z)'
    BY <1>1, <2>1, <2>4, <2>5 DEF OnItsWay
  <2>8. QED
    BY <1>1, <2>1, <2>4, <2>5, <2>6, <2>7, RequestGoesOn
<1>6. CASE Lists!Track(r)
  <2> DEFINE met == y.crossed \/ \E w \in ListWorkers : clearing[w].stage \in {"delete", "reset"}
             goes == [y EXCEPT !.stage = "put", !.crossed = met]
  <2>1. y.stage = "track"
        /\ tracked' = (IF Lists!Tracks(y.query) THEN tracked \cup {y.query} ELSE tracked)
        /\ request' = [request EXCEPT ![r] = goes]
        /\ UNCHANGED <<world, worldVersion, cached, clearing, cleared>>
    BY <1>1, <1>6 DEF Lists!Track, Lists!At, Lookup
  <2>2. PICK x \in Lookup :
          /\ x = goes /\ x.seen = y.seen /\ x.rows = y.rows /\ x.stage = "put"
          /\ x.query = y.query /\ x.steady = y.steady /\ x.crossed = met
          /\ x.partial = y.partial
    <3>1. /\ goes \in Lookup /\ goes.seen = y.seen /\ goes.rows = y.rows /\ goes.stage = "put"
          /\ goes.query = y.query /\ goes.steady = y.steady /\ goes.crossed = met
          /\ goes.partial = y.partial
      BY <1>1 DEF Lookup
    <3> HIDE DEF goes
    <3>2. QED
      BY <3>1
  <2>3. y.query \in Queries /\ Reads(x)
    BY <1>1, <2>1, <2>2 DEF Reads
  <2>4. OnItsWay(x)'
    <3> SUFFICES ASSUME ~x.crossed PROVE OnItsWay(x)'
      BY DEF OnItsWay
    <3>1. ~y.crossed /\ \A w \in ListWorkers : clearing[w].stage \notin {"delete", "reset"}
      BY <2>2
    <3>2. /\ cleared <= y.seen
          /\ \A w \in ListWorkers : (clearing[w].stage = "collect" /\ y.query = "kinds") =>
                                      clearing[w].change <= y.seen
      BY <1>1, <2>1, <3>1 DEF OnItsWay
    <3>3. Lists!Tracks(x.query) => x.query \in tracked'
      BY <2>1, <2>2
    <3>4. QED
      BY <2>1, <2>2, <3>1, <3>2, <3>3 DEF OnItsWay
  <2>5. tracked \subseteq tracked' /\ tracked' \subseteq Queries
    BY <1>1, <2>1, <2>3
  <2>6. QED
    BY <1>1, <2>1, <2>2, <2>3, <2>4, <2>5, RequestGoesOn
<1>7. QED
  BY <1>2, <1>3, <1>4, <1>5, <1>6

LEMMA PutStep ==
  ASSUME ListInv, NEW r \in ListRequests, Lists!Put(r)
  PROVE  ListInv'
<1> DEFINE y == request[r]
<1>1. /\ y \in Lookup /\ Reads(y) /\ OnItsWay(y) /\ y.stage = "put"
      /\ request \in [ListRequests -> Lookup] /\ cached \in [Queries -> Lookup \cup {Nothing}]
      /\ UNCHANGED <<world, worldVersion, tracked, clearing, cleared>>
      /\ cached' = [cached EXCEPT ![y.query] = y]
      /\ request' = [request EXCEPT ![r] = Lists!Idle]
  BY DEF ListInv, ListType, ReadInv, FreshInv, Lists!Put, Lists!At
<1>2. y.query \in Queries
  BY <1>1 DEF Reads
<1>3. Lists!Idle \in Lookup /\ Lists!Idle.stage = "idle"
  BY DEF Lists!Idle, Lookup
<1>4. /\ \A q \in Queries : cached'[q] = IF q = y.query THEN y ELSE cached[q]
      /\ \A o \in ListRequests : request'[o] = IF o = r THEN Lists!Idle ELSE request[o]
  BY <1>1, <1>2
<1>5. ListType'
  BY <1>1, <1>2, <1>3 DEF ListInv, ListType
<1>6. ReadInv'
  <2>1. \A o \in ListRequests : Reads(request'[o])
    BY <1>3, <1>4 DEF ListInv, ReadInv, Reads
  <2>2. y.partial \/ y.steady \subseteq y.rows
    BY <1>1 DEF Reads
  <2>3. QED
    BY <1>1, <1>4, <2>1, <2>2 DEF ListInv, ReadInv, Reads
<1>7. FreshInv'
  <2>1. ASSUME NEW o \in ListRequests PROVE OnItsWay(request[o])'
    BY <1>1, <1>3, <1>4 DEF ListInv, FreshInv, OnItsWay
  <2>2. ASSUME NEW q \in Queries PROVE Stored(q)'
    <3>1. CASE q # y.query
      BY <1>1, <1>4, <3>1 DEF ListInv, FreshInv, Stored
    <3>2. CASE q = y.query
      BY <1>1, <1>4, <3>2 DEF OnItsWay, Stored, Lists!Tracks
    <3>3. QED
      BY <3>1, <3>2
  <2>3. QED
    BY <2>1, <2>2 DEF FreshInv
<1>8. QED
  BY <1>5, <1>6, <1>7 DEF ListInv

LEMMA EvictStep ==
  ASSUME ListInv, NEW q \in Queries, Lists!Evict(q)
  PROVE  ListInv'
<1>1. UNCHANGED <<world, worldVersion, tracked, request, clearing, cleared>>
      /\ cached' = [cached EXCEPT ![q] = Nothing]
  BY DEF Lists!Evict
<1>2. \A p \in Queries : cached'[p] = Nothing \/ cached'[p] = cached[p]
  BY <1>1 DEF ListInv, ListType
<1>3. ListType'
  BY <1>1 DEF ListInv, ListType
<1>4. ReadInv'
  BY <1>1, <1>2 DEF ListInv, ReadInv, Reads
<1>5. FreshInv'
  BY <1>1, <1>2 DEF ListInv, FreshInv, OnItsWay, Stored
<1>6. QED
  BY <1>3, <1>4, <1>5 DEF ListInv

LEMMA ChangeStep ==
  ASSUME ListInv, NEW w \in ListWorkers, Lists!Change(w)
  PROVE  ListInv'
<1>1. /\ clearing[w].stage = "idle" /\ worldVersion' = worldVersion + 1
      /\ world' \subseteq Listed
      /\ UNCHANGED <<cached, tracked, cleared>>
      /\ request' = [r \in ListRequests |-> [request[r] EXCEPT !.steady = @ \cap world']]
      /\ clearing' = [clearing EXCEPT ![w] =
           [Lists!Resting EXCEPT !.stage = "kinds", !.change = worldVersion + 1]]
  BY DEF Lists!Change, ListInv, ListType, Listed
<1>2. Lists!Resting \in Clearing
  BY DEF Lists!Resting, Clearing
<1>3. worldVersion \in Nat /\ clearing \in [ListWorkers -> Clearing]
      /\ request \in [ListRequests -> Lookup]
  BY DEF ListInv, ListType
<1> DEFINE n == worldVersion + 1
           at == [Lists!Resting EXCEPT !.stage = "kinds", !.change = n]
<1>10. at \in Clearing /\ at.stage = "kinds" /\ at.change = n
  <2>1. n \in Nat
    BY <1>3
  <2> HIDE DEF n
  <2>2. QED
    BY <1>2, <2>1 DEF Clearing
<1>11. clearing' = [clearing EXCEPT ![w] = at]
  BY <1>1
<1> HIDE DEF at
<1>4. /\ clearing'[w] \in Clearing
      /\ clearing'[w].stage = "kinds" /\ clearing'[w].change = worldVersion + 1
      /\ \A v \in ListWorkers : v # w => clearing'[v] = clearing[v]
  BY <1>3, <1>10, <1>11
<1>5. \A r \in ListRequests :
        /\ request'[r] \in Lookup /\ request'[r].stage = request[r].stage
        /\ request'[r].query = request[r].query /\ request'[r].rows = request[r].rows
        /\ request'[r].seen = request[r].seen /\ request'[r].partial = request[r].partial
        /\ request'[r].crossed = request[r].crossed
        /\ request'[r].steady = request[r].steady \cap world'
  BY <1>1, <1>3 DEF Lookup
<1>6. ListType'
  <2>1. request' \in [ListRequests -> Lookup]
    BY <1>1, <1>5
  <2>2. clearing' \in [ListWorkers -> Clearing]
    BY <1>1, <1>2, <1>3, <1>4
  <2>3. \A v \in ListWorkers : clearing'[v].change <= worldVersion'
    BY <1>1, <1>3, <1>4 DEF ListInv, ListType, Clearing
  <2>4. QED
    BY <1>1, <1>3, <2>1, <2>2, <2>3 DEF ListInv, ListType
<1>7. ReadInv'
  <2>1. ASSUME NEW r \in ListRequests PROVE Reads(request[r])'
    BY <1>5 DEF ListInv, ReadInv, Reads
  <2>2. QED
    BY <1>1, <2>1 DEF ListInv, ReadInv
<1>8. FreshInv'
  <2>1. ASSUME NEW r \in ListRequests PROVE OnItsWay(request[r])'
    BY <1>1, <1>4, <1>5 DEF ListInv, FreshInv, OnItsWay
  <2>2. ASSUME NEW q \in Queries PROVE Stored(q)'
    BY <1>1, <1>4 DEF ListInv, FreshInv, Stored
  <2>3. QED
    BY <2>1, <2>2 DEF FreshInv
<1>9. QED
  BY <1>6, <1>7, <1>8 DEF ListInv

\* A step of an invalidation: requests that it meets are marked, the world stands still.
LEMMA Marked ==
  ASSUME ListInv, NEW Met \in SUBSET ListRequests,
         request' = [r \in ListRequests |-> [request[r] EXCEPT !.crossed = @ \/ r \in Met]],
         UNCHANGED world
  PROVE  /\ request' \in [ListRequests -> Lookup]
         /\ \A r \in ListRequests :
              /\ request'[r].stage = request[r].stage /\ request'[r].query = request[r].query
              /\ request'[r].seen = request[r].seen
              /\ request'[r].crossed = (request[r].crossed \/ r \in Met)
         /\ \A r \in ListRequests : Reads(request[r])'
<1>1. request \in [ListRequests -> Lookup]
  BY DEF ListInv, ListType
<1>2. \A r \in ListRequests :
        /\ request'[r] \in Lookup /\ request'[r].stage = request[r].stage
        /\ request'[r].query = request[r].query /\ request'[r].rows = request[r].rows
        /\ request'[r].seen = request[r].seen /\ request'[r].partial = request[r].partial
        /\ request'[r].crossed = (request[r].crossed \/ r \in Met)
        /\ request'[r].steady = request[r].steady
  BY <1>1 DEF Lookup
<1>3. ASSUME NEW r \in ListRequests PROVE Reads(request[r])'
  <2>1. Reads(request[r])
    BY DEF ListInv, ReadInv
  <2>2. QED
    BY <1>2, <2>1 DEF Reads
<1>4. QED
  BY <1>1, <1>2, <1>3

LEMMA ClearKindsStep ==
  ASSUME ListInv, NEW w \in ListWorkers, Lists!ClearKinds(w)
  PROVE  ListInv'
<1> DEFINE Met == {r \in ListRequests : request[r].query = "kinds" /\ request[r].stage # "namespaces"}
<1>1. /\ clearing[w].stage = "kinds"
      /\ UNCHANGED <<world, worldVersion, tracked, cleared>>
      /\ cached' = [q \in Queries |-> IF q = "kinds" THEN Nothing ELSE cached[q]]
      /\ request' = [r \in ListRequests |-> [request[r] EXCEPT !.crossed = @ \/ r \in Met]]
      /\ clearing' = [clearing EXCEPT ![w].stage = "collect"]
  BY DEF Lists!ClearKinds, Lists!At
<1>2. clearing \in [ListWorkers -> Clearing] /\ cached \in [Queries -> Lookup \cup {Nothing}]
  BY DEF ListInv, ListType
<1>3. /\ clearing'[w] \in Clearing /\ clearing'[w].stage = "collect"
      /\ clearing'[w].change = clearing[w].change
      /\ \A v \in ListWorkers : v # w => clearing'[v] = clearing[v]
      /\ clearing' \in [ListWorkers -> Clearing]
  BY <1>1, <1>2 DEF Clearing
<1>4. /\ request' \in [ListRequests -> Lookup]
      /\ \A r \in ListRequests :
           /\ request'[r].stage = request[r].stage /\ request'[r].query = request[r].query
           /\ request'[r].seen = request[r].seen
           /\ request'[r].crossed = (request[r].crossed \/ r \in Met)
      /\ \A r \in ListRequests : Reads(request[r])'
  BY <1>1, Marked
<1>5. ListType'
  BY <1>1, <1>2, <1>3, <1>4 DEF ListInv, ListType
<1>6. ReadInv'
  BY <1>1, <1>2, <1>4 DEF ListInv, ReadInv
<1>7. FreshInv'
  <2>1. ASSUME NEW r \in ListRequests PROVE OnItsWay(request[r])'
    <3>1. OnItsWay(request[r])
      BY DEF ListInv, FreshInv
    <3> SUFFICES ASSUME request[r].stage \in {"cluster", "track", "put"}, ~request'[r].crossed
                 PROVE  OnItsWay(request[r])'
      BY <1>4 DEF OnItsWay
    <3>2. ~request[r].crossed /\ request[r].query # "kinds"
      BY <1>4
    <3>3. \A v \in ListWorkers :
            /\ clearing'[v].stage \in {"delete", "reset"} => clearing'[v] = clearing[v]
            /\ clearing[v].stage \in {"delete", "reset"} => clearing'[v] = clearing[v]
      BY <1>1, <1>3
    <3>4. QED
      BY <1>1, <1>4, <3>1, <3>2, <3>3 DEF OnItsWay
  <2>2. ASSUME NEW q \in Queries PROVE Stored(q)'
    BY <1>1, <1>2, <1>3 DEF ListInv, FreshInv, Stored
  <2>3. QED
    BY <2>1, <2>2 DEF FreshInv
<1>8. QED
  BY <1>5, <1>6, <1>7 DEF ListInv

LEMMA CollectStep ==
  ASSUME ListInv, NEW w \in ListWorkers, Lists!Collect(w)
  PROVE  ListInv'
<1> DEFINE Met == {r \in ListRequests : request[r].stage \in {"cluster", "track", "put"}}
<1>1. /\ clearing[w].stage = "collect"
      /\ UNCHANGED <<world, worldVersion, cached, tracked, cleared>>
      /\ request' = [r \in ListRequests |-> [request[r] EXCEPT !.crossed = @ \/ r \in Met]]
      /\ clearing' = [clearing EXCEPT ![w].stage = "delete", ![w].keys = tracked]
  BY DEF Lists!Collect, Lists!Keys
<1>2. clearing \in [ListWorkers -> Clearing] /\ tracked \subseteq Queries
  BY DEF ListInv, ListType
<1>3. /\ clearing'[w] \in Clearing /\ clearing'[w].stage = "delete"
      /\ clearing'[w].change = clearing[w].change /\ clearing'[w].keys = tracked
      /\ \A v \in ListWorkers : v # w => clearing'[v] = clearing[v]
      /\ clearing' \in [ListWorkers -> Clearing]
  BY <1>1, <1>2 DEF Clearing
<1>4. /\ request' \in [ListRequests -> Lookup]
      /\ \A r \in ListRequests :
           /\ request'[r].stage = request[r].stage /\ request'[r].query = request[r].query
           /\ request'[r].seen = request[r].seen
           /\ request'[r].crossed = (request[r].crossed \/ r \in Met)
      /\ \A r \in ListRequests : Reads(request[r])'
  BY <1>1, Marked
<1>5. ListType'
  BY <1>1, <1>2, <1>3, <1>4 DEF ListInv, ListType
<1>6. ReadInv'
  BY <1>1, <1>4 DEF ListInv, ReadInv
<1>7. FreshInv'
  <2>1. ASSUME NEW r \in ListRequests PROVE OnItsWay(request[r])'
    BY <1>4 DEF OnItsWay
  <2>2. ASSUME NEW q \in Queries PROVE Stored(q)'
    BY <1>1, <1>3 DEF ListInv, FreshInv, Stored
  <2>3. QED
    BY <2>1, <2>2 DEF FreshInv
<1>8. QED
  BY <1>5, <1>6, <1>7 DEF ListInv

LEMMA DeleteKeysStep ==
  ASSUME ListInv, NEW w \in ListWorkers, Lists!DeleteKeys(w)
  PROVE  ListInv'
<1>1. /\ clearing[w].stage = "delete"
      /\ UNCHANGED <<world, worldVersion, request, tracked, cleared>>
      /\ cached' = [q \in Queries |-> IF q \in clearing[w].keys THEN Nothing ELSE cached[q]]
      /\ clearing' = [clearing EXCEPT ![w].stage = "reset"]
  BY DEF Lists!DeleteKeys
<1>2. clearing \in [ListWorkers -> Clearing] /\ cached \in [Queries -> Lookup \cup {Nothing}]
  BY DEF ListInv, ListType
<1>3. /\ clearing'[w] \in Clearing /\ clearing'[w].stage = "reset"
      /\ clearing'[w].change = clearing[w].change
      /\ \A v \in ListWorkers : v # w => clearing'[v] = clearing[v]
      /\ clearing' \in [ListWorkers -> Clearing]
  BY <1>1, <1>2 DEF Clearing
<1>4. ListType'
  BY <1>1, <1>2, <1>3 DEF ListInv, ListType
<1>5. ReadInv'
  BY <1>1 DEF ListInv, ReadInv, Reads
<1>6. FreshInv'
  <2>1. ASSUME NEW r \in ListRequests PROVE OnItsWay(request[r])'
    <3>1. OnItsWay(request[r])
      BY DEF ListInv, FreshInv
    <3>2. QED
      BY <1>1, <1>3, <3>1 DEF OnItsWay
  <2>2. ASSUME NEW q \in Queries PROVE Stored(q)'
    BY <1>1, <1>2, <1>3 DEF ListInv, FreshInv, Stored
  <2>3. QED
    BY <2>1, <2>2 DEF FreshInv
<1>7. QED
  BY <1>4, <1>5, <1>6 DEF ListInv

LEMMA ResetStep ==
  ASSUME ListInv, NEW w \in ListWorkers, Lists!Reset(w)
  PROVE  ListInv'
<1> DEFINE Met == {r \in ListRequests : request[r].stage = "put"}
<1>1. /\ clearing[w].stage = "reset" /\ tracked' = {}
      /\ cleared' = (IF clearing[w].change > cleared THEN clearing[w].change ELSE cleared)
      /\ UNCHANGED <<world, worldVersion, cached>>
      /\ request' = [r \in ListRequests |-> [request[r] EXCEPT !.crossed = @ \/ r \in Met]]
      /\ clearing' = [clearing EXCEPT ![w] = Lists!Resting]
  BY DEF Lists!Reset, Lists!At
<1>2. /\ clearing \in [ListWorkers -> Clearing] /\ worldVersion \in Nat
      /\ cleared \in Nat /\ cleared <= worldVersion /\ clearing[w].change <= worldVersion
      /\ clearing[w].change \in Nat
      /\ Lists!Resting \in Clearing /\ Lists!Resting.stage = "idle" /\ Lists!Resting.change = 0
  BY DEF ListInv, ListType, Lists!Resting, Clearing
<1>3. /\ clearing'[w] = Lists!Resting
      /\ \A v \in ListWorkers : v # w => clearing'[v] = clearing[v]
      /\ clearing' \in [ListWorkers -> Clearing]
  BY <1>1, <1>2
<1>4. /\ request' \in [ListRequests -> Lookup]
      /\ \A r \in ListRequests :
           /\ request'[r].stage = request[r].stage /\ request'[r].query = request[r].query
           /\ request'[r].seen = request[r].seen
           /\ request'[r].crossed = (request[r].crossed \/ r \in Met)
      /\ \A r \in ListRequests : Reads(request[r])'
  BY <1>1, Marked
<1>5. ListType'
  <2>1. cleared' \in Nat /\ cleared' <= worldVersion
    BY <1>1, <1>2
  <2>2. \A v \in ListWorkers : clearing'[v].change <= worldVersion
    BY <1>2, <1>3 DEF ListInv, ListType
  <2>3. QED
    BY <1>1, <1>2, <1>3, <1>4, <2>1, <2>2 DEF ListInv, ListType
<1>6. ReadInv'
  BY <1>1, <1>4 DEF ListInv, ReadInv
<1>7. FreshInv'
  <2>1. ASSUME NEW r \in ListRequests PROVE OnItsWay(request[r])'
    <3>1. OnItsWay(request[r])
      BY DEF ListInv, FreshInv
    <3>2. QED
      BY <1>1, <1>2, <1>3, <1>4, <3>1 DEF OnItsWay
  <2>2. ASSUME NEW q \in Queries PROVE Stored(q)'
    <3>1. Stored(q)
      BY DEF ListInv, FreshInv
    <3>2. QED
      BY <1>1, <1>2, <1>3, <3>1 DEF Stored
  <2>3. QED
    BY <2>1, <2>2 DEF FreshInv
<1>8. QED
  BY <1>5, <1>6, <1>7 DEF ListInv

LEMMA ListStep ==
  ASSUME ListInv, Lists!Next \/ UNCHANGED listVars
  PROVE  ListInv'
<1>1. CASE UNCHANGED listVars
  BY <1>1 DEF listVars, ListInv, ListType, ReadInv, FreshInv, Reads, OnItsWay, Stored
<1>2. CASE Lists!Next
  BY <1>2, RequestStep, PutStep, EvictStep, ChangeStep, ClearKindsStep, CollectStep,
     DeleteKeysStep, ResetStep DEF Lists!Next
<1>3. QED
  BY <1>1, <1>2

\* A list from before a change is gone after the invalidation, unless the two met,
\* and a cached list lacks nothing that was there all the while it was read: for
\* any number of queries, requests and workers (resource_cache.go).
THEOREM ListsAlwaysFresh == Spec => []ListsFresh
<1> DEFINE Inv == part = "lists" => ListInv
<1>1. Init => Inv
  BY ListStart
<1>2. Inv /\ [Next]_allVars => Inv'
  <2> SUFFICES ASSUME Inv, [Next]_allVars PROVE Inv'
    OBVIOUS
  <2>1. part' = part
    BY DEF Next, allVars
  <2>2. ASSUME part = "lists" PROVE ListInv'
    BY <2>2, ListSteps, ListStep
  <2>3. QED
    BY <2>1, <2>2
<1>3. Inv => ListsFresh
  <2> SUFFICES ASSUME ListInv PROVE Lists!ClearedIsGone /\ Lists!StoredIsWhole
    BY DEF ListsFresh
  <2>1. \A q \in Queries : cached[q] # Nothing => cached[q].seen \in Nat
    BY DEF ListInv, ListType, Lookup
  <2>2. QED
    BY <2>1 DEF ListInv, ListType, ReadInv, FreshInv, Stored, Lists!ClearedIsGone, Lists!StoredIsWhole
<1> HIDE DEF Inv
<1>4. QED
  BY <1>1, <1>2, <1>3, PTL DEF Spec, allVars

-----------------------------------------------------------------------------
(* Metrics and the cache of their ranges.                                    *)

Metric == [stage: {"idle", "ask", "done"}, kind: DOMAIN Templates \cup {""},
           of: Objects \cup {""}, at: Nat, results: SUBSET (Nat \X Nat)]
Kept == [full: BOOLEAN, age: Nat]
Asked(i) == query.stage = "done" \/ i < query.at
MetricInv ==
  /\ sample \in [Objects -> Nat] /\ since \in [Objects -> SUBSET Nat]
  /\ \A o \in Objects : sample[o] \in since[o]
  /\ query \in Metric
  /\ query.stage # "idle" =>
       /\ query.kind \in DOMAIN Templates /\ query.of \in Objects
       /\ \A r \in query.results : r[2] \in since[query.of]
       /\ (breaks = 0 /\ query.kind = "Pod") =>
            \A i \in DOMAIN Templates["Pod"] :
              (Asked(i) /\ Templates["Pod"][i] = <<1, 2>>) => \E r \in query.results : r[1] = i
  /\ query.stage = "ask" => query.at \in 1..Len(Templates[query.kind])
  /\ breaks \in Nat /\ minutes \in Nat /\ kept \in Kept /\ answer \in Kept
  /\ kept.full => kept.age <= EntryLife + (minutes % CleanWindow)
  /\ answer.full => answer.age <= EntryLife + CleanWindow

LEMMA MetricSteps ==
  ASSUME part = "metrics", [Next]_allVars
  PROVE  part' = part /\ (Metrics!Next \/ UNCHANGED metricVars)
BY DEF Next, GraphNext, PlatformNext, GraphParts, allVars, graphVars, platformVars

\* A minute more is a clean-up, or one more since the last.
LEMMA NextMinute ==
  ASSUME NEW m \in Nat, NEW c \in Nat \ {0}
  PROVE  /\ m % c \in 0..(c - 1)
         /\ (m + 1) % c = 0 \/ (m + 1) % c = (m % c) + 1
<1>1. m \in Int /\ m + 1 \in Int /\ c \in Int /\ c > 0
  OBVIOUS
<1> DEFINE p == m \div c
           q == (m + 1) \div c
           r == m % c
           s == (m + 1) % c
<1>2. r = m - c * p /\ s = (m + 1) - c * q
  BY <1>1
<1>3. p \in Int /\ q \in Int /\ r \in 0..c - 1 /\ s \in 0..c - 1
  BY <1>1
<1> HIDE DEF p, q, r, s
<1>4. c * (q - p) = 1 + r - s
  BY <1>1, <1>2, <1>3
<1>5. s = 0 \/ s = r + 1
  BY <1>1, <1>3, <1>4
<1>6. QED
  BY <1>3, <1>5 DEF r, s

LEMMA MetricStart ==
  ASSUME Init, part = "metrics"
  PROVE  MetricInv
<1>1. Metrics!Init
  BY DEF Init
<1>2. /\ Metrics!Idle \in Metric /\ Metrics!Idle.stage = "idle"
      /\ Metrics!Empty \in Kept /\ ~Metrics!Empty.full
  BY DEF Metrics!Idle, Metrics!Empty, Metric, Kept
<1>3. QED
  BY <1>1, <1>2 DEF Metrics!Init, MetricInv

LEMMA OfSequence ==
  ASSUME NEW S, NEW s \in Seq(S)
  PROVE  /\ Len(s) \in Nat /\ DOMAIN s = 1..Len(s)
         /\ \A i \in 1..Len(s) : s[i] \in S /\ \A e : Append(s, e)[i] = s[i]
OBVIOUS

LEMMA FromFunction ==
  ASSUME NEW S, NEW n \in Nat, NEW s \in [1..n -> S]
  PROVE  s \in Seq(S) /\ Len(s) = n
OBVIOUS

LEMMA FirstTwo ==
  ASSUME NEW n \in Nat, NEW i \in 1..n, i <= 2
  PROVE  i \in {1, 2}
OBVIOUS

LEMMA TemplatesAreSequences ==
  ASSUME NEW k \in DOMAIN Templates
  PROVE  /\ Templates[k] \in Seq(Seq({1, 2})) /\ Len(Templates[k]) \in Nat
         /\ 1 <= Len(Templates[k]) /\ DOMAIN Templates[k] = 1..Len(Templates[k])
         /\ \A i \in 1..Len(Templates[k]) : Templates[k][i] \in Seq({1, 2})
<1>1. PICK s : s = Templates[k]
  OBVIOUS
<1>2. s \in Seq(Seq({1, 2})) /\ s # <<>>
  BY <1>1, PlatformAssumption
<1>3. Len(s) \in Nat /\ Len(s) # 0 /\ DOMAIN s = 1..Len(s)
  BY <1>2
<1>4. \A i \in 1..Len(s) : s[i] \in Seq({1, 2})
  BY <1>2
<1>5. QED
  BY <1>1, <1>2, <1>3, <1>4

\* Whatever fills the placeholders, an answer is of the object that was asked for ...
LEMMA SelectedIsAsked ==
  ASSUME NEW kind \in DOMAIN Templates, NEW o \in Objects, NEW template \in Seq({1, 2}),
         NEW p \in Metrics!Selected(template, Metrics!Filled(kind, template, o))
  PROVE  p = o
<1> DEFINE args == Metrics!Arguments(kind, o)
           text == Metrics!Filled(kind, template, o)
           slots == [i \in 1..Len(template) |->
                       IF Configured THEN args[template[i]]
                       ELSE IF i <= Len(args) THEN args[i] ELSE "?"]
<1>1. p \in Objects /\ p \in Metrics!Named(template, text)
  BY DEF Metrics!Selected
<1>2. PICK i \in 1..Len(template) : template[i] = 2 /\ text[i] = p
  BY <1>1 DEF Metrics!Named
<1>3. PICK first \in {"", "namespace"} : args = <<first, o>>
  BY DEF Metrics!Arguments
<1>4. args[2] = o /\ args[1] \in {"", "namespace"} /\ Len(args) = 2
  <2> HIDE DEF args
  <2>1. QED
    BY <1>3
<1>5. text[i] = slots[i]
  <2>1. text = IF ~Configured /\ Len(template) < Len(args) THEN Append(slots, "+") ELSE slots
    BY DEF Metrics!Filled
  <2>2. slots \in Seq({slots[j] : j \in 1..Len(template)}) /\ Len(slots) = Len(template)
    <3>1. PICK n \in Nat : n = Len(template)
      BY OfSequence
    <3>2. slots \in [1..n -> {slots[j] : j \in 1..n}]
      BY <3>1
    <3> HIDE DEF slots
    <3>3. slots \in Seq({slots[j] : j \in 1..n}) /\ Len(slots) = n
      BY <3>2, FromFunction
    <3>4. QED
      BY <3>1, <3>3
  <2> HIDE DEF slots
  <2>3. Append(slots, "+")[i] = slots[i]
    BY <1>2, <2>2, OfSequence
  <2>4. QED
    BY <2>1, <2>3
<1> HIDE DEF args, text
<1>6. slots[i] = IF Configured THEN args[2] ELSE IF i <= 2 THEN args[i] ELSE "?"
  BY <1>2, <1>4
<1>7. slots[i] \in {o, "", "namespace", "?"}
  <2>1. i <= 2 => i \in {1, 2}
    <3>1. Len(template) \in Nat
      BY OfSequence
    <3>2. QED
      BY <1>2, <3>1, FirstTwo
  <2> HIDE DEF slots
  <2>2. QED
    BY <1>4, <1>6, <2>1
<1>8. QED
  BY <1>1, <1>2, <1>5, <1>7, PlatformAssumption

\* ... and a template with a place for the namespace and one for the name gets both.
LEMMA PodIsSelected ==
  ASSUME NEW o \in Objects
  PROVE  o \in Metrics!Selected(<<1, 2>>, Metrics!Filled("Pod", <<1, 2>>, o))
<1> DEFINE args == Metrics!Arguments("Pod", o)
           template == <<1, 2>>
           text == Metrics!Filled("Pod", template, o)
           slots == [i \in 1..Len(template) |->
                       IF Configured THEN args[template[i]]
                       ELSE IF i <= Len(args) THEN args[i] ELSE "?"]
<1>1. args = <<"namespace", o>>
  BY DEF Metrics!Arguments
<1>2. text = slots
  <2>1. text = IF ~Configured /\ Len(template) < Len(args) THEN Append(slots, "+") ELSE slots
    BY DEF Metrics!Filled
  <2>2. Len(template) = 2 /\ Len(args) = 2
    BY <1>1
  <2>3. QED
    BY <2>1, <2>2
<1>3. DOMAIN text = {1, 2} /\ text[1] = "namespace" /\ text[2] = o
  BY <1>1, <1>2
<1>4. template[1] = 1 /\ template[2] = 2 /\ Len(template) = 2
  OBVIOUS
<1> HIDE DEF text, template
<1>5. Metrics!Understood(text)
  BY <1>3, PlatformAssumption DEF Metrics!Understood, Metrics!ToSet
<1>6. Metrics!Named(template, text) = {o}
  BY <1>3, <1>4 DEF Metrics!Named
<1>7. QED
  BY <1>5, <1>6 DEF Metrics!Selected, template, text

LEMMA QueryStep ==
  ASSUME MetricInv,
         \/ \E k \in DOMAIN Templates, o \in Objects : Metrics!Begin(k, o)
         \/ Metrics!Execute \/ Metrics!ExecuteFails \/ Metrics!Finish
  PROVE  MetricInv'
<1>1. ASSUME NEW k \in DOMAIN Templates, NEW o \in Objects, Metrics!Begin(k, o)
      PROVE  MetricInv'
  <2>1. /\ query' = [Metrics!Idle EXCEPT !.stage = "ask", !.kind = k, !.of = o]
        /\ since' = [p \in Objects |-> {sample[p]}]
        /\ UNCHANGED <<sample, kept, answer, minutes, breaks>>
    BY <1>1 DEF Metrics!Begin
  <2>2. Metrics!Idle \in Metric /\ Metrics!Idle.at = 1 /\ Metrics!Idle.results = {}
    BY DEF Metrics!Idle, Metric
  <2>3. /\ query' \in Metric /\ query'.stage = "ask" /\ query'.kind = k /\ query'.of = o
        /\ query'.at = 1 /\ query'.results = {}
    BY <2>1, <2>2 DEF Metric
  <2>4. Len(Templates[k]) \in Nat /\ 1 <= Len(Templates[k])
    BY TemplatesAreSequences
  <2>5. \A i \in DOMAIN Templates["Pod"] : ~(i < 1)
    <3>1. PICK n \in Nat : DOMAIN Templates["Pod"] = 1..n
      BY TemplatesAreSequences, PlatformAssumption
    <3>2. QED
      BY <3>1
  <2>6. since' \in [Objects -> SUBSET Nat] /\ \A p \in Objects : sample'[p] \in since'[p]
    BY <2>1 DEF MetricInv
  <2>7. QED
    BY <2>1, <2>3, <2>4, <2>5, <2>6 DEF MetricInv, Asked
\* One template answered, with what it found.
<1>2. ASSUME NEW results \in SUBSET (Nat \X Nat), query.stage = "ask", Metrics!Step(results),
             breaks' \in Nat, breaks' = 0 => breaks = 0,
             UNCHANGED <<sample, since, kept, answer, minutes>>,
             \A r \in results : r[2] \in since[query.of],
             (breaks' = 0 /\ query.kind = "Pod" /\ Templates["Pod"][query.at] = <<1, 2>>) =>
               \E r \in results : r[1] = query.at
      PROVE  MetricInv'
  <2> DEFINE last == query.at = Len(Templates[query.kind])
             to == IF last THEN "done" ELSE "ask"
  <2>1. /\ query \in Metric /\ query.kind \in DOMAIN Templates /\ query.of \in Objects
        /\ query.at \in 1..Len(Templates[query.kind])
        /\ Len(Templates[query.kind]) \in Nat
    BY <1>2, TemplatesAreSequences DEF MetricInv
  <2>2. /\ query' \in Metric /\ query'.stage = to /\ query'.kind = query.kind
        /\ query'.of = query.of /\ query'.at = query.at + 1
        /\ query'.results = query.results \cup results
    <3>1. PICK n \in Nat : n = query.at + 1
      BY <2>1
    <3>2. query' = [query EXCEPT !.results = @ \cup results, !.at = n, !.stage = to]
      BY <1>2, <2>1, <3>1 DEF Metrics!Step, Metric
    <3>3. query.results \cup results \in SUBSET (Nat \X Nat)
      BY <1>2, <2>1 DEF Metric
    <3> HIDE DEF last
    <3>4. QED
      BY <2>1, <3>1, <3>2, <3>3 DEF Metric
  <2>3. \A r \in query'.results : r[2] \in since'[query'.of]
    BY <1>2, <2>2 DEF MetricInv
  <2>4. ASSUME breaks' = 0, query'.kind = "Pod", NEW i \in DOMAIN Templates["Pod"], Asked(i)',
               Templates["Pod"][i] = <<1, 2>>
        PROVE  \E r \in query'.results : r[1] = i
    <3>1. i \in 1..Len(Templates["Pod"]) /\ Len(Templates["Pod"]) \in Nat
      BY TemplatesAreSequences, PlatformAssumption
    <3>2. Asked(i) \/ i = query.at
      BY <2>1, <2>2, <2>4, <3>1 DEF Asked
    <3>3. QED
      BY <1>2, <2>2, <2>4, <3>2 DEF MetricInv
  <2>5. query'.stage = "ask" => query'.at \in 1..Len(Templates[query'.kind])
    BY <2>1, <2>2
  <2>6. QED
    BY <1>2, <2>1, <2>2, <2>3, <2>4, <2>5 DEF MetricInv
<1>3. CASE Metrics!Execute
  <2> DEFINE template == Templates[query.kind][query.at]
             text == Metrics!Filled(query.kind, template, query.of)
             results == {<<query.at, sample[o]>> : o \in Metrics!Selected(template, text)}
  <2>1. /\ query.stage = "ask" /\ Metrics!Step(results) /\ breaks' = breaks
        /\ UNCHANGED <<sample, since, kept, answer, minutes>>
    BY <1>3 DEF Metrics!Execute
  <2>2. /\ query \in Metric /\ query.kind \in DOMAIN Templates /\ query.of \in Objects
        /\ query.at \in 1..Len(Templates[query.kind]) /\ query.at \in Nat
        /\ sample \in [Objects -> Nat] /\ \A o \in Objects : sample[o] \in since[o]
        /\ breaks \in Nat
    BY <2>1 DEF MetricInv, Metric
  <2>3. template \in Seq({1, 2})
    BY <2>2, TemplatesAreSequences
  <2>4. \A o \in Metrics!Selected(template, text) : o = query.of
    BY <2>2, <2>3, SelectedIsAsked
  <2>5. \A r \in results : r = <<query.at, sample[query.of]>>
    BY <2>4
  <2>6. results \subseteq Nat \X Nat /\ \A r \in results : r[2] \in since[query.of]
    BY <2>2, <2>5
  <2>7. (query.kind = "Pod" /\ template = <<1, 2>>) => \E r \in results : r[1] = query.at
    <3> SUFFICES ASSUME query.kind = "Pod", template = <<1, 2>>
                 PROVE  \E r \in results : r[1] = query.at
      OBVIOUS
    <3>1. query.of \in Metrics!Selected(template, text)
      BY <2>2, PodIsSelected
    <3>2. <<query.at, sample[query.of]>> \in results
      BY <3>1
    <3>3. QED
      BY <3>2
  <2> HIDE DEF results
  <2>8. QED
    BY <1>2, <2>1, <2>2, <2>6, <2>7
<1>4. CASE Metrics!ExecuteFails
  <2>1. /\ query.stage = "ask" /\ Metrics!Step({}) /\ breaks' = breaks + 1
        /\ UNCHANGED <<sample, since, kept, answer, minutes>>
    BY <1>4 DEF Metrics!ExecuteFails
  <2>2. breaks' \in Nat /\ breaks' # 0
    BY <2>1 DEF MetricInv
  <2>3. QED
    BY <1>2, <2>1, <2>2
<1>5. CASE Metrics!Finish
  <2>1. query' = Metrics!Idle /\ UNCHANGED <<sample, since, kept, answer, minutes, breaks>>
    BY <1>5 DEF Metrics!Finish
  <2>2. Metrics!Idle \in Metric /\ Metrics!Idle.stage = "idle"
    BY DEF Metrics!Idle, Metric
  <2>3. QED
    BY <2>1, <2>2 DEF MetricInv
<1>6. QED
  BY <1>1, <1>3, <1>4, <1>5

LEMMA RangeStep ==
  ASSUME MetricInv, Metrics!QueryRange \/ Metrics!QueryRangeFails \/ Metrics!Tick
  PROVE  MetricInv'
<1>1. /\ kept \in Kept /\ answer \in Kept /\ minutes \in Nat /\ breaks \in Nat
      /\ EntryLife \in Nat /\ CleanWindow \in Nat \ {0} /\ minutes % CleanWindow \in 0..CleanWindow - 1
      /\ kept.full => kept.age <= EntryLife + (minutes % CleanWindow)
      /\ Metrics!Empty \in Kept /\ ~Metrics!Empty.full
  BY PlatformAssumption, NextMinute DEF MetricInv, Metrics!Empty, Kept
<1>2. CASE Metrics!QueryRange
  <2>1. /\ UNCHANGED <<sample, since, query, minutes, breaks>>
        /\ \/ kept.full /\ answer' = kept /\ kept' = kept
           \/ kept' = [full |-> TRUE, age |-> 0] /\ answer' = [full |-> FALSE, age |-> 0]
    BY <1>2 DEF Metrics!QueryRange, Metrics!Hit
  <2>2. /\ kept' \in Kept /\ answer' \in Kept
        /\ kept'.full => kept'.age <= EntryLife + (minutes % CleanWindow)
        /\ answer'.full => answer'.age <= EntryLife + CleanWindow
    <3>1. CASE kept.full /\ answer' = kept /\ kept' = kept
      <4>1. kept.age \in Nat
        BY <1>1 DEF Kept
      <4>2. QED
        BY <1>1, <3>1, <4>1
    <3>2. CASE kept' = [full |-> TRUE, age |-> 0] /\ answer' = [full |-> FALSE, age |-> 0]
      BY <1>1, <3>2 DEF Kept
    <3>3. QED
      BY <2>1, <3>1, <3>2
  <2>3. QED
    BY <2>1, <2>2 DEF MetricInv, Asked
<1>3. CASE Metrics!QueryRangeFails
  <2>1. /\ UNCHANGED <<sample, since, query, kept, minutes>> /\ breaks' = breaks + 1
        /\ answer' = Metrics!Empty
    BY <1>3 DEF Metrics!QueryRangeFails
  <2>2. breaks' \in Nat /\ breaks' # 0
    BY <1>1, <2>1
  <2>3. QED
    BY <1>1, <2>1, <2>2 DEF MetricInv, Asked
<1>4. CASE Metrics!Tick
  <2>1. /\ UNCHANGED <<sample, since, query, breaks>> /\ minutes' = minutes + 1
        /\ answer' = Metrics!Empty
        /\ kept' = (IF kept.full /\ ~Metrics!Drops(kept.age + 1)
                    THEN [kept EXCEPT !.age = @ + 1] ELSE Metrics!Empty)
    BY <1>4 DEF Metrics!Tick
  <2>2. /\ kept' \in Kept
        /\ kept'.full => kept'.age <= EntryLife + (minutes' % CleanWindow)
    <3>1. CASE kept' = Metrics!Empty
      BY <1>1, <3>1
    <3>2. CASE kept' # Metrics!Empty
      <4>1. kept.full /\ ~Metrics!Drops(kept.age + 1) /\ kept' = [kept EXCEPT !.age = @ + 1]
        BY <2>1, <3>2
      <4>2. PICK n \in Nat : n = kept.age
        BY <1>1 DEF Kept
      <4>3. kept' \in Kept /\ kept'.age = n + 1
        <5>1. PICK m \in Nat : m = n + 1
          OBVIOUS
        <5>2. kept' = [kept EXCEPT !.age = m]
          BY <1>1, <4>1, <4>2, <5>1 DEF Kept
        <5>3. QED
          BY <1>1, <5>1, <5>2 DEF Kept
      <4>4. minutes' % CleanWindow = 0 => n + 1 <= EntryLife
        BY <1>1, <4>1, <4>2 DEF Metrics!Drops
      <4>5. minutes' % CleanWindow = 0 \/ minutes' % CleanWindow = (minutes % CleanWindow) + 1
        BY <1>1, <2>1, NextMinute
      <4>6. n <= EntryLife + (minutes % CleanWindow)
        BY <1>1, <4>1, <4>2
      <4>7. n + 1 <= EntryLife + (minutes' % CleanWindow)
        <5>1. PICK c \in Nat : c = minutes % CleanWindow
          BY <1>1
        <5>2. CASE minutes' % CleanWindow = 0
          BY <1>1, <4>4, <5>2
        <5>3. CASE minutes' % CleanWindow = c + 1
          BY <1>1, <4>6, <5>1, <5>3
        <5>4. QED
          BY <4>5, <5>1, <5>2, <5>3
      <4>8. QED
        BY <4>3, <4>7
    <3>3. QED
      BY <3>1, <3>2
  <2>3. minutes' \in Nat
    BY <1>1, <2>1
  <2>4. QED
    BY <1>1, <2>1, <2>2, <2>3 DEF MetricInv, Asked
<1>5. QED
  BY <1>2, <1>3, <1>4

LEMMA SampleStep ==
  ASSUME MetricInv, NEW o \in Objects, Metrics!Change(o)
  PROVE  MetricInv'
<1>1. /\ sample' = [sample EXCEPT ![o] = @ + 1] /\ since' = [since EXCEPT ![o] = @ \cup {sample'[o]}]
      /\ UNCHANGED <<query, kept, answer, minutes, breaks>>
  BY DEF Metrics!Change
<1>2. sample \in [Objects -> Nat] /\ since \in [Objects -> SUBSET Nat]
      /\ \A p \in Objects : sample[p] \in since[p]
  BY DEF MetricInv
<1>3. PICK n \in Nat : n = sample[o] + 1
  BY <1>2
<1>4. sample' = [sample EXCEPT ![o] = n] /\ since' = [since EXCEPT ![o] = @ \cup {n}]
  BY <1>1, <1>2, <1>3
<1>5. /\ sample' \in [Objects -> Nat] /\ since' \in [Objects -> SUBSET Nat]
      /\ \A p \in Objects : sample'[p] \in since'[p] /\ since[p] \subseteq since'[p]
  BY <1>2, <1>4
<1>6. QED
  BY <1>1, <1>5 DEF MetricInv, Asked

\* Every value of a metrics query was one of the object that was asked for while the
\* call went on, a Pod lacks none when nothing fails, and a cached range is no older
\* than its life and one clean-up: for any kinds and templates, filled by position
\* or by index (query_service.go, cache.go).
THEOREM MetricsAlwaysSound == Spec => []MetricsSound
<1> DEFINE Inv == part = "metrics" => MetricInv
<1>1. Init => Inv
  BY MetricStart
<1>2. Inv /\ [Next]_allVars => Inv'
  <2> SUFFICES ASSUME Inv, [Next]_allVars PROVE Inv'
    OBVIOUS
  <2>1. part' = part
    BY DEF Next, allVars
  <2>2. ASSUME part = "metrics" PROVE MetricInv'
    <3>1. CASE UNCHANGED metricVars
      BY <2>2, <3>1 DEF metricVars, MetricInv, Asked
    <3>2. CASE Metrics!Next
      BY <2>2, <3>2, QueryStep, RangeStep, SampleStep DEF Metrics!Next
    <3>3. QED
      BY <2>2, <3>1, <3>2, MetricSteps
  <2>3. QED
    BY <2>1, <2>2
<1>3. Inv => MetricsSound
  BY DEF MetricInv, Asked, MetricsSound, Metrics!ValuesOfAsked, Metrics!RangeAgeBounded
<1> HIDE DEF Inv
<1>4. QED
  BY <1>1, <1>2, <1>3, PTL DEF Spec, allVars

-----------------------------------------------------------------------------
(* The start of the server and its deferred calls.                           *)

Early == {"load", "clusters", "database", "graph", "kafka"}
Alarm == "db" \notin open \/ ~Server!Has("prometheus")
           \/ (Server!Has("topology") /\ ~Server!Has("workloads"))
\* The calls of runApp in a row: each part of the set has one, that of the
\* configuration is the last.
InOrder(deferred, parts) ==
  /\ deferred \in Seq({"inspection", "labels", "traces", "flows", "config"})
  /\ \A p \in parts : \E i \in 1..Len(deferred) : deferred[i] = p
  /\ \A i \in 1..Len(deferred) : deferred[i] = "config" => i = Len(deferred)
\* What is built has what it needs, what is hollow is one of the excused parts,
\* and what is active has its deferred call before that of the configuration.
StartInv ==
  /\ fate = "panic" => Alarm
  /\ phase = "services" => wanted \cap {"traces", "workloads", "flows"} \subseteq open
  /\ "diagnosis" \in hollow => ~Server!Has("prometheus")
  /\ "labels" \in hollow => Server!Has("topology") /\ ~Server!Has("workloads")
  /\ "flows" \in made => "traces" \in made
  /\ "tools" \in made => "executor" \in made /\ Server!Has("redis")
  /\ "pipeline" \in made => "executor" \in made
  /\ phase \in Early \cup {"services", "inspection"} => active = {}
  /\ phase \in {"routes", "engine", "start"} =>
       stops = <<"inspection", "config">> /\ active \subseteq {"inspection"}
  /\ phase = "serving" =>
       active \subseteq {"inspection", "labels", "traces", "flows"} /\ InOrder(stops, active)
  /\ fate = "done" => active = {}

LEMMA StartSteps ==
  ASSUME part = "server", [Next]_allVars
  PROVE  part' = part /\ (Server!Next \/ UNCHANGED startVars)
BY DEF Next, GraphNext, PlatformNext, GraphParts, allVars, graphVars, platformVars

LEMMA StartStart ==
  ASSUME Init, part = "server"
  PROVE  StartInv
BY DEF Init, Server!Init, StartInv, Early

LEMMA LoadStep ==
  ASSUME StartInv,
         Server!Load \/ Server!Clusters \/ Server!SetupDB \/ Server!SetupNebulaGraph
           \/ Server!SetupKafka \/ Server!Signal
  PROVE  StartInv'
<1>1. CASE Server!SetupKafka
  BY <1>1 DEF Server!SetupKafka, Server!Fine, Server!Go, Server!At, Server!Has,
     Server!OptionalClients, StartInv, Early, Alarm
<1>2. CASE Server!Signal
  BY <1>2 DEF Server!Signal, Server!Has, StartInv, Early, Alarm
<1>3. CASE Server!Load
  BY <1>3 DEF Server!Load, Server!Fine, Server!Outage, Server!Exit, Server!Go, Server!At,
     Server!Has, StartInv, Early, Alarm
<1>4. CASE Server!Clusters
  BY <1>4 DEF Server!Clusters, Server!Fine, Server!Outage, Server!Exit, Server!Go, Server!At,
     Server!Has, StartInv, Early, Alarm
<1>5. CASE Server!SetupDB
  BY <1>5 DEF Server!SetupDB, Server!Fine, Server!Outage, Server!Exit, Server!Go, Server!At,
     Server!Has, StartInv, Early, Alarm
<1>6. CASE Server!SetupNebulaGraph
  BY <1>6 DEF Server!SetupNebulaGraph, Server!Fine, Server!Outage, Server!Exit, Server!Go,
     Server!At, Server!Has, StartInv, Early, Alarm
<1>7. QED
  BY <1>1, <1>2, <1>3, <1>4, <1>5, <1>6

LEMMA BuildStep ==
  ASSUME StartInv,
         Server!Services \/ Server!Inspect \/ Server!Routes \/ Server!BuildEngine
  PROVE  StartInv'
<1>1. CASE Server!Services
  <2>1. /\ phase = "services" /\ phase' = "inspection" /\ fate = "alive"
        /\ UNCHANGED <<wanted, active, stops, told, fate>>
        /\ hollow' = IF Server!Has("topology") /\ "workloads" \notin open THEN {"labels"} ELSE {}
    BY <1>1 DEF Server!Services, Server!At
  <2>2. /\ "tools" \notin made' /\ "pipeline" \notin made'
        /\ "flows" \in made' => "traces" \in made'
    BY <1>1 DEF Server!Services, Server!NeedsTraces
  <2>3. "labels" \in hollow' => Server!Has("topology") /\ ~Server!Has("workloads")
    BY <2>1 DEF StartInv, Server!Has
  <2>4. QED
    BY <2>1, <2>2, <2>3 DEF StartInv, Server!Has, Early
<1>2. CASE Server!Inspect
  BY <1>2 DEF Server!Inspect, Server!Fine, Server!At, Server!Has, StartInv, Early
<1>3. CASE Server!Routes
  BY <1>3 DEF Server!Routes, Server!Fine, Server!At, Server!Has, StartInv, Early, Alarm
<1>4. CASE Server!BuildEngine
  BY <1>4 DEF Server!BuildEngine, Server!DiagnosisParts, Server!ToolsWithBoth, Server!Fine,
     Server!At, Server!Has, StartInv, Early
<1>5. QED
  BY <1>1, <1>2, <1>3, <1>4

\* One more deferred call.
LEMMA DeferredInOrder ==
  ASSUME NEW deferred, NEW parts, NEW p \in {"labels", "traces", "flows"}, NEW there,
         InOrder(deferred, parts)
  PROVE  InOrder(Server!Defer(p, there, deferred), parts \cup ({p} \cap there))
<1>1. CASE p \notin there
  BY <1>1 DEF Server!Defer
<1>2. CASE p \in there
  <2> DEFINE s == <<p>> \o deferred
  <2>1. deferred \in Seq({"inspection", "labels", "traces", "flows", "config"})
    BY DEF InOrder
  <2>2. PICK n \in Nat : n = Len(deferred)
    BY <2>1
  <2>3. /\ s \in Seq({"inspection", "labels", "traces", "flows", "config"})
        /\ Len(s) = n + 1 /\ s[1] = p
        /\ \A i \in 1..n : s[i + 1] = deferred[i]
    <3>1. <<p>> \in Seq({"inspection", "labels", "traces", "flows", "config"})
          /\ Len(<<p>>) = 1 /\ <<p>>[1] = p
      OBVIOUS
    <3>2. QED
      BY <2>1, <2>2, <3>1
  <2> HIDE DEF s
  <2>4. \A i \in 2..n + 1 : i - 1 \in 1..n /\ s[i] = deferred[i - 1]
    <3>1. \A i \in 2..n + 1 : i - 1 \in 1..n /\ (i - 1) + 1 = i
      OBVIOUS
    <3>2. QED
      BY <2>3, <3>1
  <2>5. ASSUME NEW i \in 1..Len(s), s[i] = "config" PROVE i = Len(s)
    <3>1. i \in 2..n + 1
      BY <2>3, <2>5
    <3>2. i - 1 = n
      BY <2>2, <2>4, <2>5, <3>1 DEF InOrder
    <3>3. QED
      BY <2>3, <3>1, <3>2
  <2>6. ASSUME NEW a \in parts \cup {p} PROVE \E i \in 1..Len(s) : s[i] = a
    <3>1. CASE a = p
      BY <2>3, <3>1
    <3>2. CASE a \in parts
      <4>1. PICK i \in 1..n : deferred[i] = a
        BY <2>2, <3>2 DEF InOrder
      <4>2. i + 1 \in 1..Len(s) /\ s[i + 1] = a
        BY <2>3, <4>1
      <4>3. QED
        BY <4>2
    <3>3. QED
      BY <2>6, <3>1, <3>2
  <2>7. QED
    BY <1>2, <2>3, <2>5, <2>6 DEF InOrder, Server!Defer, s
<1>3. QED
  BY <1>1, <1>2

LEMMA StartAllStep ==
  ASSUME StartInv, Server!StartAll
  PROVE  StartInv'
<1>1. /\ phase = "start" /\ phase' = "serving" /\ fate = "alive"
      /\ active' = active \cup {p \in {"labels", "traces", "flows"} : p \in made}
      /\ stops' = Server!Later(made, stops)
      /\ UNCHANGED <<wanted, open, made, hollow, fate>>
  BY DEF Server!StartAll, Server!At
<1>2. stops = <<"inspection", "config">> /\ active \subseteq {"inspection"}
  BY <1>1 DEF StartInv
<1>3. InOrder(stops, active)
  <2>1. stops \in Seq({"inspection", "labels", "traces", "flows", "config"})
    BY <1>2
  <2>2. Len(stops) = 2 /\ stops[1] = "inspection" /\ stops[2] = "config"
    BY <1>2
  <2>3. 1..Len(stops) = {1, 2}
    BY <2>2
  <2>4. QED
    BY <1>2, <2>1, <2>2, <2>3 DEF InOrder
<1>4. InOrder(stops', active')
  <2> DEFINE one == Server!Defer("labels", made, stops)
             two == Server!Defer("traces", made, one)
             three == Server!Defer("flows", made, two)
  <2>1. InOrder(one, active \cup ({"labels"} \cap made))
    BY <1>3, DeferredInOrder
  <2>2. InOrder(two, (active \cup ({"labels"} \cap made)) \cup ({"traces"} \cap made))
    BY <2>1, DeferredInOrder
  <2>3. InOrder(three, ((active \cup ({"labels"} \cap made)) \cup ({"traces"} \cap made))
                         \cup ({"flows"} \cap made))
    BY <2>2, DeferredInOrder
  <2>4. stops' = three
    BY <1>1 DEF Server!Later
  <2>5. active' = ((active \cup ({"labels"} \cap made)) \cup ({"traces"} \cap made))
                    \cup ({"flows"} \cap made)
    BY <1>1
  <2>6. QED
    BY <2>3, <2>4, <2>5
<1>5. QED
  BY <1>1, <1>2, <1>4 DEF StartInv, Server!Has, Early

LEMMA ServeStep ==
  ASSUME StartInv, Server!Serve
  PROVE  StartInv'
<1>1. UNCHANGED <<wanted, phase, open, made, hollow, active, stops, told>>
  BY DEF Server!Serve
<1>2. fate' = "panic" \/ fate' = fate
  BY DEF Server!Serve, Server!Diagnose, Server!ConsumeLabels, Server!Uses, Server!Crash,
     Server!Survive
<1>3. fate' = "panic" => Alarm
  <2>1. Server!Diagnose /\ fate' # fate => "diagnosis" \in hollow
    BY DEF Server!Diagnose, Server!Survive
  <2>2. Server!ConsumeLabels /\ fate' # fate => "labels" \in hollow
    BY DEF Server!ConsumeLabels, Server!Survive
  <2>3. \A p \in made : Server!Uses(p) => fate' = fate
    BY DEF Server!Uses, Server!Needs, Server!Survive, StartInv
  <2>4. fate = "alive"
    BY DEF Server!Serve, Server!At
  <2>5. QED
    BY <2>1, <2>2, <2>3, <2>4 DEF Server!Serve, StartInv, Alarm
<1>4. QED
  BY <1>1, <1>2, <1>3 DEF StartInv, Server!Has, Alarm

LEMMA ReturnStep ==
  ASSUME StartInv, Server!Return
  PROVE  StartInv'
<1>1. /\ phase = "serving" /\ fate = "alive" /\ stops # <<>> /\ stops' = Tail(stops)
      /\ UNCHANGED <<wanted, made, hollow>>
      /\ active \subseteq {"inspection", "labels", "traces", "flows"} /\ InOrder(stops, active)
  BY DEF Server!Return, Server!At, StartInv
<1>2. PICK s : s = stops
  OBVIOUS
<1>3. /\ s \in Seq({"inspection", "labels", "traces", "flows", "config"}) /\ s # <<>>
      /\ \A a \in active : \E i \in 1..Len(s) : s[i] = a
      /\ \A i \in 1..Len(s) : s[i] = "config" => i = Len(s)
  BY <1>1, <1>2 DEF InOrder
<1>4. PICK n \in Nat : Len(s) = n + 1
  <2>1. Len(s) \in Nat /\ Len(s) # 0
    BY <1>3
  <2>2. QED
    BY <2>1
<1>5. Head(s) = s[1]
  BY <1>3
<1>6. CASE Head(s) = "config"
  <2>1. phase' = "closed" /\ fate' = "done" /\ active' = active
    BY <1>2, <1>6 DEF Server!Return
  <2>2. n = 0
    BY <1>3, <1>4, <1>5, <1>6
  <2>3. active = {}
    BY <1>1, <1>3, <1>4, <1>5, <1>6, <2>2
  <2>4. QED
    BY <1>1, <2>1, <2>3 DEF StartInv, Server!Has, Early
<1>7. CASE Head(s) # "config"
  <2>1. active' = active \ {Head(s)} /\ UNCHANGED <<open, phase, fate>>
    BY <1>2, <1>7 DEF Server!Return
  <2>2. /\ Tail(s) \in Seq({"inspection", "labels", "traces", "flows", "config"})
        /\ Len(Tail(s)) = n /\ \A i \in 1..n : Tail(s)[i] = s[i + 1]
    BY <1>3, <1>4
  <2>3. ASSUME NEW a \in active' PROVE \E i \in 1..n : Tail(s)[i] = a
    <3>1. a \in active /\ a # s[1]
      BY <1>5, <2>1, <2>3
    <3>2. PICK i \in 1..n + 1 : s[i] = a
      BY <1>3, <1>4, <3>1
    <3>3. i - 1 \in 1..n /\ (i - 1) + 1 = i
      BY <3>1, <3>2
    <3>4. QED
      BY <2>2, <3>2, <3>3
  <2>4. ASSUME NEW i \in 1..n, Tail(s)[i] = "config" PROVE i = n
    <3>1. i + 1 \in 1..n + 1 /\ s[i + 1] = "config"
      BY <2>2, <2>4
    <3>2. i + 1 = n + 1
      BY <1>3, <1>4, <3>1
    <3>3. QED
      BY <3>2
  <2>5. InOrder(stops, active)'
    BY <1>1, <1>2, <2>2, <2>3, <2>4 DEF InOrder
  <2>6. active' \subseteq {"inspection", "labels", "traces", "flows"}
    BY <1>1, <2>1
  <2>7. QED
    BY <1>1, <2>1, <2>5, <2>6 DEF StartInv, Server!Has, Early
<1>8. QED
  BY <1>6, <1>7

LEMMA StartStep ==
  ASSUME StartInv, Server!Next \/ UNCHANGED startVars
  PROVE  StartInv'
<1>1. CASE UNCHANGED startVars
  BY <1>1 DEF startVars, StartInv, Server!Has, Alarm
<1>2. CASE Server!Next
  BY <1>2, LoadStep, BuildStep, StartAllStep, ServeStep, ReturnStep DEF Server!Next
<1>3. QED
  BY <1>1, <1>2

-----------------------------------------------------------------------------
(* The end of the process.                                                   *)

\* The messages that were handed over: given to the topic, or left out.
Queued == {biz.queue[i] : i \in 1..Len(biz.queue)}
Held == IF publisher.step = "publish" THEN {publisher.m} ELSE {}
Given == skipped \cup biz.published \cup Queued \cup Held
Handed == [step: {"handover", "commit"}, m: Messages]
Publishes == [step: {"publish"}, m: Messages]
BizInv ==
  /\ biz \in [open: BOOLEAN, queue: Seq(Messages), published: SUBSET Messages]
  /\ consumer \in [Consumers -> Handed \cup {[step |-> "idle"], [step |-> "panicked"]}]
  /\ publisher \in Publishes \cup {[step |-> "idle"], [step |-> "done"]}
  /\ committed \subseteq Given
  /\ \A c \in Consumers, m \in Messages :
       consumer[c] = [step |-> "commit", m |-> m] => m \in Given
  /\ publisher.step = "done" => ~biz.open /\ biz.queue = <<>>

\* What is left to the handler, and to main.
HandlerDone == {<<"executor", "server">>, <<"server">>, <<>>}
HandlerRows ==
  {<<"waiting">>, <<"panicked">>,
   <<"informers", "drain", "business", "published", "executor", "server">>,
   <<"drain", "business", "published", "executor", "server">>,
   <<"business", "published", "executor", "server">>,
   <<"published", "executor", "server">>} \cup HandlerDone
MainDone == {<<"inspection", "close">>, <<"close">>, <<>>}
MainRows ==
  {<<"serving">>, <<"crashed">>,
   <<"flow", "trace", "flush", "labels", "workers", "inspection", "close">>,
   <<"trace", "flush", "labels", "workers", "inspection", "close">>,
   <<"flush", "labels", "workers", "inspection", "close">>,
   <<"labels", "workers", "inspection", "close">>,
   <<"workers", "inspection", "close">>} \cup MainDone
HandlerInv ==
  /\ handler \in HandlerRows
  /\ handler \in HandlerDone => publisher = [step |-> "done"]
\* A worker of the labels returns when the channel is closed and empty.
LabelInv ==
  /\ main \in MainRows
  /\ labels \in [asked: BOOLEAN, open: BOOLEAN, loop: {"poll", "give", "gone"}, queue: Nat,
                 polled: Nat, busy: SUBSET LabelWorkers, gone: SUBSET LabelWorkers]
  /\ labels.gone # {} => ~labels.open /\ labels.queue = 0
  /\ labels.gone \cap labels.busy = {}
  /\ main \in MainDone => labels.gone = LabelWorkers
  /\ ~graphOpen => labels.gone = LabelWorkers
StopInv == BizInv /\ HandlerInv /\ LabelInv

LEMMA StopSteps ==
  ASSUME part = "stop", [Next]_allVars
  PROVE  part' = part /\ (Stop!Next \/ UNCHANGED stopVars)
BY DEF Next, GraphNext, PlatformNext, GraphParts, allVars, graphVars, platformVars

LEMMA StopStart ==
  ASSUME Init, part = "stop"
  PROVE  StopInv
<1>1. Stop!Init
  BY DEF Init
<1>2. BizInv
  BY <1>1 DEF Stop!Init, Stop!Rest, BizInv
<1>3. HandlerInv
  BY <1>1 DEF Stop!Init, HandlerInv, HandlerRows, HandlerDone
<1>4. LabelInv
  <2>1. main = <<"serving">> /\ graphOpen
    BY <1>1 DEF Stop!Init
  <2>2. main \in MainRows /\ main \notin MainDone
    BY <2>1 DEF MainRows, MainDone
  <2>3. QED
    BY <1>1, <2>1, <2>2 DEF Stop!Init, LabelInv
<1>5. QED
  BY <1>2, <1>3, <1>4 DEF StopInv

\* What the parts of the process leave alone.
LEMMA BizStays ==
  ASSUME BizInv, UNCHANGED <<biz, publisher, consumer, committed, skipped>>
  PROVE  BizInv'
BY DEF BizInv, Given, Queued, Held
LEMMA HandlerStays ==
  ASSUME HandlerInv, UNCHANGED handler, publisher' = publisher \/ publisher' = [step |-> "done"]
  PROVE  HandlerInv'
BY DEF HandlerInv
LEMMA LabelStays ==
  ASSUME LabelInv, UNCHANGED <<main, labels, graphOpen>>
  PROVE  LabelInv'
BY DEF LabelInv

LEMMA MainStep ==
  ASSUME StopInv, Stop!Signal \/ Stop!Serve \/ Stop!Defer \/ Stop!Listen
  PROVE  StopInv'
<1>1. /\ UNCHANGED <<biz, publisher, consumer, committed, skipped, handler>>
  BY DEF Stop!Signal, Stop!Serve, Stop!Defer, Stop!Listen, Stop!topicVars
<1>2. BizInv' /\ HandlerInv'
  BY <1>1, BizStays, HandlerStays DEF StopInv
<1>3. CASE Stop!Signal \/ Stop!Listen
  <2>1. UNCHANGED <<main, labels, graphOpen>>
    BY <1>3 DEF Stop!Signal, Stop!Listen
  <2>2. QED
    BY <1>2, <2>1, LabelStays DEF StopInv
<1>4. CASE Stop!Serve
  <2>1. main' = Stop!Deferred /\ UNCHANGED <<labels, graphOpen>>
    BY <1>4 DEF Stop!Serve
  <2>2. main' \in MainRows /\ main' \notin MainDone
    BY <2>1 DEF Stop!Deferred, MainRows, MainDone
  <2>3. LabelInv'
    BY <2>1, <2>2 DEF StopInv, LabelInv
  <2>4. QED
    BY <1>2, <2>3 DEF StopInv
<1>5. CASE Stop!Defer
  <2>1. /\ main \notin {<<>>, <<"crashed">>} /\ Head(main) # "serving"
        /\ Head(main) = "workers" => labels.gone = LabelWorkers
        /\ main' = Tail(main)
        /\ graphOpen' = (graphOpen /\ Head(main) # "close")
        /\ main \in MainRows
    BY <1>5 DEF Stop!Defer, Stop!Ended, Stop!Waited, Stop!LabelsGone, StopInv, LabelInv
  <2>2. /\ main' \in MainRows
        /\ main' \in MainDone => main \in MainDone \/ Head(main) = "workers"
        /\ Head(main) = "close" => main \in MainDone
    <3>1. CASE main = <<"flow", "trace", "flush", "labels", "workers", "inspection", "close">>
      <4>1. Head(main) = "flow" /\ Len(main) = 7
        BY <3>1
      <4>2. Tail(main) = <<"trace", "flush", "labels", "workers", "inspection", "close">>
        BY <3>1
      <4>3. Tail(main) \in MainRows
        BY <4>2 DEF MainRows, MainDone
      <4>4. QED
        BY <2>1, <4>1, <4>2, <4>3 DEF MainDone
    <3>2. CASE main = <<"trace", "flush", "labels", "workers", "inspection", "close">>
      <4>1. Head(main) = "trace" /\ Len(main) = 6
        BY <3>2
      <4>2. Tail(main) = <<"flush", "labels", "workers", "inspection", "close">>
        BY <3>2
      <4>3. Tail(main) \in MainRows
        BY <4>2 DEF MainRows, MainDone
      <4>4. QED
        BY <2>1, <4>1, <4>2, <4>3 DEF MainDone
    <3>3. CASE main = <<"flush", "labels", "workers", "inspection", "close">>
      <4>1. Head(main) = "flush" /\ Len(main) = 5
        BY <3>3
      <4>2. Tail(main) = <<"labels", "workers", "inspection", "close">>
        BY <3>3
      <4>3. Tail(main) \in MainRows
        BY <4>2 DEF MainRows, MainDone
      <4>4. QED
        BY <2>1, <4>1, <4>2, <4>3 DEF MainDone
    <3>4. CASE main = <<"labels", "workers", "inspection", "close">>
      <4>1. Head(main) = "labels" /\ Len(main) = 4
        BY <3>4
      <4>2. Tail(main) = <<"workers", "inspection", "close">>
        BY <3>4
      <4>3. Tail(main) \in MainRows
        BY <4>2 DEF MainRows, MainDone
      <4>4. QED
        BY <2>1, <4>1, <4>2, <4>3 DEF MainDone
    <3>5. CASE main = <<"workers", "inspection", "close">>
      <4>1. Head(main) = "workers" /\ Len(main) = 3
        BY <3>5
      <4>2. Tail(main) = <<"inspection", "close">>
        BY <3>5
      <4>3. Tail(main) \in MainRows
        BY <4>2 DEF MainRows, MainDone
      <4>4. QED
        BY <2>1, <4>1, <4>2, <4>3 DEF MainDone
    <3>6. CASE main = <<"inspection", "close">>
      BY <2>1, <3>6 DEF MainRows, MainDone
    <3>7. CASE main = <<"close">>
      BY <2>1, <3>7 DEF MainRows, MainDone
    <3>8. CASE main = <<"serving">>
      BY <2>1, <3>8
    <3>9. QED
      BY <2>1, <3>1, <3>2, <3>3, <3>4, <3>5, <3>6, <3>7, <3>8 DEF MainRows, MainDone
  <2>3. /\ labels' \in [asked: BOOLEAN, open: BOOLEAN, loop: {"poll", "give", "gone"},
                        queue: Nat, polled: Nat, busy: SUBSET LabelWorkers,
                        gone: SUBSET LabelWorkers]
        /\ labels'.gone = labels.gone /\ labels'.busy = labels.busy
        /\ labels'.queue = labels.queue
        /\ labels'.open => labels.open
    <3>1. labels' \in {labels, [labels EXCEPT !.asked = TRUE], [labels EXCEPT !.open = FALSE]}
      BY <1>5 DEF Stop!Defer, Stop!Closed
    <3>2. QED
      BY <3>1 DEF StopInv, LabelInv
  <2>4. main' \in MainDone => labels.gone = LabelWorkers
    <3>1. main \in MainDone => labels.gone = LabelWorkers
      BY DEF StopInv, LabelInv
    <3>2. QED
      BY <2>1, <2>2, <3>1
  <2>5. ~graphOpen' => labels.gone = LabelWorkers
    BY <2>1, <2>2 DEF StopInv, LabelInv
  <2>6. LabelInv'
    <3>1. labels.gone # {} => ~labels.open /\ labels.queue = 0
      BY DEF StopInv, LabelInv
    <3>2. labels.gone \cap labels.busy = {}
      BY DEF StopInv, LabelInv
    <3>3. main' \in MainRows
      BY <2>2
    <3>4. QED
      BY <2>3, <2>4, <2>5, <3>1, <3>2, <3>3 DEF LabelInv
  <2>7. QED
    BY <1>2, <2>6 DEF StopInv
<1>6. QED
  BY <1>3, <1>4, <1>5

LEMMA HandlerStep ==
  ASSUME StopInv, Stop!Handler
  PROVE  StopInv'
<1>1. UNCHANGED <<main, labels, graphOpen, publisher, consumer, committed, skipped>>
  BY DEF Stop!Handler, Stop!topicVars
<1>2. LabelInv'
  BY <1>1, LabelStays DEF StopInv
<1>3. biz' = biz \/ biz' = [biz EXCEPT !.open = FALSE]
  BY DEF Stop!Handler
<1>4. /\ biz' \in [open: BOOLEAN, queue: Seq(Messages), published: SUBSET Messages]
      /\ biz'.queue = biz.queue /\ biz'.published = biz.published
      /\ biz'.open => biz.open
  BY <1>3 DEF StopInv, BizInv
<1>5. BizInv'
  BY <1>1, <1>4 DEF StopInv, BizInv, Given, Queued, Held
<1>6. HandlerInv'
  <2>1. handler \in HandlerRows /\ handler # <<>>
        /\ (handler \in HandlerDone => publisher = [step |-> "done"])
    BY DEF Stop!Handler, StopInv, HandlerInv
  <2>2. handler' \in HandlerRows
        /\ (handler' \in HandlerDone => publisher = [step |-> "done"])
    <3>1. CASE handler = <<"waiting">>
      <4>1. handler' = Stop!ToStop
        BY <3>1 DEF Stop!Handler
      <4>2. QED
        BY <4>1 DEF Stop!ToStop, HandlerRows, HandlerDone
    <3>2. CASE handler = <<"panicked">>
      BY <3>2 DEF Stop!Handler
    <3>3. CASE handler = <<"informers", "drain", "business", "published", "executor", "server">>
      <4>1. handler' = Tail(handler) \/ handler' = <<"panicked">>
        BY <3>3 DEF Stop!Handler
      <4>2. QED
        BY <3>3, <4>1 DEF HandlerRows, HandlerDone
    <3>4. CASE handler = <<"drain", "business", "published", "executor", "server">>
      <4>1. handler' = Tail(handler)
        BY <3>4 DEF Stop!Handler
      <4>2. QED
        BY <3>4, <4>1 DEF HandlerRows, HandlerDone
    <3>5. CASE handler = <<"business", "published", "executor", "server">>
      <4>1. handler' = Tail(handler)
        BY <3>5 DEF Stop!Handler
      <4>2. QED
        BY <3>5, <4>1 DEF HandlerRows, HandlerDone
    <3>6. CASE handler = <<"published", "executor", "server">>
      <4>1. handler' = Tail(handler) /\ publisher = [step |-> "done"]
        BY <3>6 DEF Stop!Handler, Stop!Published
      <4>2. QED
        BY <3>6, <4>1 DEF HandlerRows, HandlerDone
    <3>7. CASE handler = <<"executor", "server">>
      <4>1. handler' = Tail(handler)
        BY <3>7 DEF Stop!Handler
      <4>2. QED
        BY <2>1, <3>7, <4>1 DEF HandlerRows, HandlerDone
    <3>8. CASE handler = <<"server">>
      <4>1. handler' = Tail(handler)
        BY <3>8 DEF Stop!Handler
      <4>2. QED
        BY <2>1, <3>8, <4>1 DEF HandlerRows, HandlerDone
    <3>9. QED
      BY <2>1, <3>1, <3>2, <3>3, <3>4, <3>5, <3>6, <3>7, <3>8 DEF HandlerRows, HandlerDone
  <2>3. QED
    BY <1>1, <2>2 DEF HandlerInv
<1>7. QED
  BY <1>2, <1>5, <1>6 DEF StopInv

LEMMA LabelStep ==
  ASSUME StopInv, Stop!LabelLoop \/ \E w \in LabelWorkers : Stop!LabelWork(w)
  PROVE  StopInv'
<1>1. UNCHANGED <<handler, publisher, consumer, committed, skipped, biz, graphOpen>>
  BY DEF Stop!LabelLoop, Stop!LabelWork, Stop!topicVars, Stop!processVars
<1>2. BizInv' /\ HandlerInv'
  BY <1>1, BizStays, HandlerStays DEF StopInv
<1>3. LabelInv /\ main \notin {<<>>, <<"crashed">>}
  BY DEF Stop!LabelLoop, Stop!LabelWork, Stop!Ended, StopInv
<1> DEFINE Label == [asked: BOOLEAN, open: BOOLEAN, loop: {"poll", "give", "gone"}, queue: Nat,
                     polled: Nat, busy: SUBSET LabelWorkers, gone: SUBSET LabelWorkers]
<1>4. labels \in Label /\ main \in MainRows
  BY <1>3 DEF LabelInv
<1>5. PICK q \in Nat, p \in Nat : q = labels.queue /\ p = labels.polled
  BY <1>4
<1>6. CASE Stop!LabelLoop
  <2>1. CASE main' = <<"crashed">> /\ labels' = labels
    <3>1. main' \in MainRows /\ main' \notin MainDone
      BY <2>1 DEF MainRows, MainDone
    <3>2. LabelInv'
      BY <1>1, <1>3, <2>1, <3>1 DEF LabelInv
    <3>3. QED
      BY <1>2, <3>2 DEF StopInv
  <2>2. CASE main' = main /\ labels' = [labels EXCEPT !.loop = "give", !.polled = p + 1]
    <3>1. /\ labels' \in Label /\ labels'.gone = labels.gone /\ labels'.busy = labels.busy
          /\ labels'.queue = labels.queue /\ labels'.open = labels.open
      <4>1. PICK n \in Nat : n = p + 1
        OBVIOUS
      <4>2. QED
        BY <1>4, <2>2, <4>1
    <3>2. LabelInv'
      BY <1>1, <1>3, <2>2, <3>1 DEF LabelInv
    <3>3. QED
      BY <1>2, <3>2 DEF StopInv
  <2>3. CASE main' = main /\ labels' = [labels EXCEPT !.loop = "gone"]
    <3>1. /\ labels' \in Label /\ labels'.gone = labels.gone /\ labels'.busy = labels.busy
          /\ labels'.queue = labels.queue /\ labels'.open = labels.open
      BY <1>4, <2>3
    <3>2. LabelInv'
      BY <1>1, <1>3, <2>3, <3>1 DEF LabelInv
    <3>3. QED
      BY <1>2, <3>2 DEF StopInv
  <2>4. CASE main' = main /\ labels' = [labels EXCEPT !.loop = "poll", !.queue = q + 1]
             /\ labels.open
    <3>1. /\ labels' \in Label /\ labels'.gone = labels.gone /\ labels'.busy = labels.busy
          /\ labels'.open = labels.open
      <4>1. PICK n \in Nat : n = q + 1
        OBVIOUS
      <4>2. QED
        BY <1>4, <2>4, <4>1
    <3>2. LabelInv'
      BY <1>1, <1>3, <2>4, <3>1 DEF LabelInv
    <3>3. QED
      BY <1>2, <3>2 DEF StopInv
  <2>5. QED
    BY <1>5, <1>6, <2>1, <2>2, <2>3, <2>4 DEF Stop!LabelLoop
<1>7. ASSUME NEW w \in LabelWorkers, Stop!LabelWork(w) PROVE StopInv'
  <2>1. main' = main /\ w \notin labels.gone
    BY <1>7 DEF Stop!LabelWork, Stop!processVars
  <2>2. CASE labels' = labels
    BY <1>1, <1>2, <1>3, <2>1, <2>2, LabelStays DEF StopInv
  <2>3. CASE labels' = [labels EXCEPT !.busy = @ \ {w}]
    <3>1. /\ labels' \in Label /\ labels'.gone = labels.gone /\ labels'.busy \subseteq labels.busy
          /\ labels'.queue = labels.queue /\ labels'.open = labels.open
      BY <1>4, <2>3
    <3>2. LabelInv'
      BY <1>1, <1>3, <2>1, <3>1 DEF LabelInv
    <3>3. QED
      BY <1>2, <3>2 DEF StopInv
  <2>4. CASE labels' = [labels EXCEPT !.busy = @ \cup {w}, !.queue = @ - 1] /\ labels.queue > 0
    <3>1. PICK n \in Nat : n = labels.queue - 1
      BY <1>4, <2>4
    <3>2. labels' = [labels EXCEPT !.busy = @ \cup {w}, !.queue = n]
      BY <1>4, <2>4, <3>1
    <3>3. /\ labels' \in Label /\ labels'.gone = labels.gone
          /\ labels'.busy = labels.busy \cup {w} /\ labels'.open = labels.open
      BY <1>4, <3>2
    <3>4. labels.gone = {}
      BY <1>3, <1>4, <2>4 DEF LabelInv
    <3>5. LabelInv'
      BY <1>1, <1>3, <2>1, <3>3, <3>4 DEF LabelInv
    <3>6. QED
      BY <1>2, <3>5 DEF StopInv
  <2>5. CASE /\ labels' = [labels EXCEPT !.gone = @ \cup {w}] /\ ~labels.open
             /\ w \notin labels.busy /\ ~(labels.queue > 0)
    <3>1. /\ labels' \in Label /\ labels'.gone = labels.gone \cup {w}
          /\ labels'.busy = labels.busy
          /\ labels'.queue = labels.queue /\ labels'.open = labels.open
      BY <1>4, <2>5
    <3>2. labels.queue = 0
      BY <1>4, <2>5
    <3>3. LabelInv'
      BY <1>1, <1>3, <2>1, <2>5, <3>1, <3>2 DEF LabelInv
    <3>4. QED
      BY <1>2, <3>3 DEF StopInv
  <2>6. QED
    BY <1>7, <2>2, <2>3, <2>4, <2>5 DEF Stop!LabelWork
<1>8. QED
  BY <1>6, <1>7

LEMMA EventStep ==
  ASSUME StopInv, Stop!Event \/ Stop!Send
  PROVE  StopInv'
<1>1. UNCHANGED <<biz, publisher, consumer, committed, skipped, handler, main, labels, graphOpen>>
  BY DEF Stop!Event, Stop!Send, Stop!topicVars, Stop!processVars
<1>2. QED
  BY <1>1, BizStays, HandlerStays, LabelStays DEF StopInv

\* What was handed over stays so.
LEMMA BizGrows ==
  ASSUME BizInv, Given \subseteq Given', committed' \subseteq Given',
         biz' \in [open: BOOLEAN, queue: Seq(Messages), published: SUBSET Messages],
         publisher' = publisher, biz'.queue = biz.queue \/ biz.open, biz'.open = biz.open,
         consumer' \in [Consumers -> Handed \cup {[step |-> "idle"], [step |-> "panicked"]}],
         \A d \in Consumers, m \in Messages :
           consumer'[d] = [step |-> "commit", m |-> m] => consumer'[d] = consumer[d] \/ m \in Given'
  PROVE  BizInv'
BY DEF BizInv

LEMMA ConsumerStep ==
  ASSUME StopInv, NEW c \in Consumers,
         Stop!HandOver(c) \/ Stop!Commit(c) \/ \E m \in Messages : Stop!Consume(c, m)
  PROVE  StopInv'
<1>1. UNCHANGED <<publisher, handler, main, labels, graphOpen>>
  BY DEF Stop!HandOver, Stop!Commit, Stop!Consume, Stop!processVars
<1>2. HandlerInv' /\ LabelInv'
  BY <1>1, HandlerStays, LabelStays DEF StopInv
<1> DEFINE At == Handed \cup {[step |-> "idle"], [step |-> "panicked"]}
<1>3. BizInv /\ consumer \in [Consumers -> At] /\ committed \subseteq Given
      /\ biz \in [open: BOOLEAN, queue: Seq(Messages), published: SUBSET Messages]
  BY DEF StopInv, BizInv
<1>4. CASE \E m \in Messages : Stop!Consume(c, m)
  <2>1. PICK m \in Messages : consumer' = [consumer EXCEPT ![c] = [step |-> "handover", m |-> m]]
    BY <1>4 DEF Stop!Consume
  <2>2. UNCHANGED <<biz, publisher, committed, skipped>>
    BY <1>4 DEF Stop!Consume
  <2>3. [step |-> "handover", m |-> m] \in At
    BY DEF Handed
  <2>4. consumer' \in [Consumers -> At]
    BY <1>3, <2>1, <2>3
  <2>5. Given' = Given
    BY <2>2 DEF Given, Queued, Held
  <2>6. \A d \in Consumers, k \in Messages :
          consumer'[d] = [step |-> "commit", m |-> k] => consumer'[d] = consumer[d]
    BY <1>3, <2>1
  <2>7. BizInv'
    BY <1>3, <2>2, <2>4, <2>5, <2>6, BizGrows
  <2>8. QED
    BY <1>2, <2>7 DEF StopInv
<1>5. CASE Stop!Commit(c)
  <2>1. /\ consumer[c].step = "commit" /\ committed' = committed \cup {consumer[c].m}
        /\ consumer' = [consumer EXCEPT ![c] = [step |-> "idle"]]
        /\ UNCHANGED <<biz, publisher, skipped>>
    BY <1>5 DEF Stop!Commit, Stop!At, Stop!Rest
  <2>2. PICK m \in Messages : consumer[c] = [step |-> "commit", m |-> m]
    <3>1. consumer[c] \in At
      BY <1>3
    <3>2. consumer[c] \in Handed
      BY <2>1, <3>1
    <3>3. QED
      BY <2>1, <3>2 DEF Handed
  <2>3. m \in Given /\ consumer[c].m = m
    BY <1>3, <2>2 DEF BizInv
  <2>4. Given' = Given
    BY <2>1 DEF Given, Queued, Held
  <2>5. consumer' \in [Consumers -> At]
    BY <1>3, <2>1
  <2>6. \A d \in Consumers, k \in Messages :
          consumer'[d] = [step |-> "commit", m |-> k] => consumer'[d] = consumer[d]
    BY <1>3, <2>1
  <2>7. committed' \subseteq Given'
    BY <1>3, <2>1, <2>3, <2>4
  <2>8. BizInv'
    BY <1>3, <2>1, <2>4, <2>5, <2>6, <2>7, BizGrows
  <2>9. QED
    BY <1>2, <2>8 DEF StopInv
<1>6. CASE Stop!HandOver(c)
  <2>1. consumer[c].step = "handover" /\ committed' = committed
    BY <1>6 DEF Stop!HandOver, Stop!At, Stop!MarkLater
  <2>2. PICK m \in Messages : consumer[c] = [step |-> "handover", m |-> m]
    <3>1. consumer[c] \in At
      BY <1>3
    <3>2. consumer[c] \in Handed
      BY <2>1, <3>1
    <3>3. QED
      BY <2>1, <3>2 DEF Handed
  <2>3. consumer[c].m = m
    BY <2>2
  <2>4. [step |-> "commit", m |-> m] \in At
    BY DEF Handed
  <2>5. ASSUME consumer' = [consumer EXCEPT ![c].step = "commit"]
        PROVE  /\ consumer' \in [Consumers -> At]
               /\ \A d \in Consumers, k \in Messages :
                    consumer'[d] = [step |-> "commit", m |-> k] =>
                      consumer'[d] = consumer[d] \/ k = m
    <3>1. [consumer[c] EXCEPT !.step = "commit"] = [step |-> "commit", m |-> m]
      BY <2>2
    <3>2. consumer' = [consumer EXCEPT ![c] = [step |-> "commit", m |-> m]]
      BY <1>3, <2>5, <3>1
    <3>3. consumer' \in [Consumers -> At]
      BY <1>3, <2>4, <3>2
    <3>4. \A d \in Consumers : consumer'[d] = IF d = c THEN [step |-> "commit", m |-> m]
                                              ELSE consumer[d]
      BY <1>3, <3>2
    <3>5. \A k \in Messages : [step |-> "commit", m |-> m] = [step |-> "commit", m |-> k] => k = m
      OBVIOUS
    <3>6. QED
      BY <3>3, <3>4, <3>5
  <2>6. CASE /\ biz.open /\ consumer' = [consumer EXCEPT ![c].step = "commit"]
             /\ biz' = [biz EXCEPT !.queue = Append(@, m)] /\ skipped' = skipped
    <3>1. biz.queue \in Seq(Messages) /\ Append(biz.queue, m) \in Seq(Messages)
      BY <1>3
    <3>2. /\ biz' \in [open: BOOLEAN, queue: Seq(Messages), published: SUBSET Messages]
          /\ biz'.queue = Append(biz.queue, m) /\ biz'.published = biz.published
          /\ biz'.open = biz.open
      BY <1>3, <2>6, <3>1
    <3>3. Queued \cup {m} \subseteq Queued'
      <4>1. PICK n \in Nat : n = Len(biz.queue)
        BY <3>1
      <4>2. Len(biz'.queue) = n + 1 /\ biz'.queue[n + 1] = m
        BY <3>1, <3>2, <4>1
      <4>3. \A i \in 1..n : biz'.queue[i] = biz.queue[i] /\ i \in 1..(n + 1)
        BY <3>1, <3>2, <4>1
      <4>4. n + 1 \in 1..(n + 1)
        BY <4>1
      <4>5. QED
        BY <4>1, <4>2, <4>3, <4>4 DEF Queued
    <3>4. Held' = Held
      BY <1>1 DEF Held
    <3>5. Given \cup {m} \subseteq Given'
      BY <2>6, <3>2, <3>3, <3>4 DEF Given
    <3>6. BizInv'
      BY <1>1, <1>3, <2>1, <2>5, <2>6, <3>2, <3>5, BizGrows
    <3>7. QED
      BY <1>2, <3>6 DEF StopInv
  <2>7. CASE /\ consumer' = [consumer EXCEPT ![c].step = "commit"]
             /\ biz' = biz /\ skipped' = skipped \cup {m}
    <3>1. Given \cup {m} \subseteq Given'
      BY <1>1, <2>7 DEF Given, Queued, Held
    <3>2. BizInv'
      BY <1>1, <1>3, <2>1, <2>5, <2>7, <3>1, BizGrows
    <3>3. QED
      BY <1>2, <3>2 DEF StopInv
  <2>8. CASE /\ consumer' = [consumer EXCEPT ![c] = [step |-> "panicked"]]
             /\ UNCHANGED <<biz, skipped>>
    <3>1. consumer' \in [Consumers -> At]
      BY <1>3, <2>8
    <3>2. \A d \in Consumers, k \in Messages :
            consumer'[d] = [step |-> "commit", m |-> k] => consumer'[d] = consumer[d]
      BY <1>3, <2>8
    <3>3. Given' = Given
      BY <1>1, <2>8 DEF Given, Queued, Held
    <3>4. BizInv'
      BY <1>1, <1>3, <2>1, <2>8, <3>1, <3>2, <3>3, BizGrows
    <3>5. QED
      BY <1>2, <3>4 DEF StopInv
  <2>9. QED
    BY <1>6, <2>3, <2>6, <2>7, <2>8 DEF Stop!HandOver
<1>7. QED
  BY <1>4, <1>5, <1>6

LEMMA PublishStep ==
  ASSUME StopInv, Stop!Publish
  PROVE  StopInv'
<1>1. /\ UNCHANGED <<handler, main, labels, graphOpen, consumer, committed, skipped>>
      /\ publisher.step # "done"
  BY DEF Stop!Publish, Stop!processVars, Stop!topicVars
<1>2. LabelInv'
  BY <1>1, LabelStays DEF StopInv
<1>3. HandlerInv'
  BY <1>1 DEF StopInv, HandlerInv
<1>4. BizInv /\ biz.queue \in Seq(Messages)
  BY DEF StopInv, BizInv
<1>5. CASE /\ biz.queue # <<>> /\ publisher = Stop!Rest
           /\ publisher' = [step |-> "publish", m |-> Head(biz.queue)]
           /\ biz' = [biz EXCEPT !.queue = Tail(@)]
  <2>1. PICK n \in Nat \ {0} : n = Len(biz.queue)
    BY <1>4, <1>5
  <2>2. biz.queue[1] \in Messages /\ Tail(biz.queue) \in Seq(Messages)
    BY <1>4, <1>5, <2>1
  <2>3. PICK h \in Messages : h = Head(biz.queue) /\ h = biz.queue[1]
    BY <1>4, <1>5, <2>1, <2>2
  <2>4. /\ biz' \in [open: BOOLEAN, queue: Seq(Messages), published: SUBSET Messages]
        /\ biz'.queue = Tail(biz.queue) /\ biz'.published = biz.published
        /\ biz'.open = biz.open
    BY <1>4, <1>5, <2>2 DEF BizInv
  <2>5. publisher' = [step |-> "publish", m |-> h]
    BY <1>5, <2>3
  <2>6. publisher'.step = "publish" /\ publisher'.m = h /\ publisher' \in Publishes
    BY <2>5 DEF Publishes
  <2>7. Queued \subseteq Queued' \cup {h}
    <3>1. ASSUME NEW i \in 1..n PROVE biz.queue[i] \in Queued' \cup {h}
      <4>1. CASE i = 1
        BY <2>3, <4>1
      <4>2. CASE i # 1
        <5>1. PICK j \in Nat : j = i - 1
          BY <3>1
        <5>2. j \in 1..Len(biz'.queue) /\ biz'.queue[j] = biz.queue[i]
          BY <1>4, <2>1, <2>4, <3>1, <4>2, <5>1
        <5>3. QED
          BY <5>2 DEF Queued
      <4>3. QED
        BY <4>1, <4>2
    <3>2. QED
      BY <2>1, <3>1 DEF Queued
  <2>8. Held = {} /\ Held' = {h}
    BY <1>5, <2>6 DEF Stop!Rest, Held
  <2>9. Given \subseteq Given'
    BY <1>1, <2>4, <2>7, <2>8 DEF Given
  <2>10. BizInv'
    BY <1>1, <1>4, <2>4, <2>6, <2>9 DEF BizInv
  <2>11. QED
    BY <1>2, <1>3, <2>10 DEF StopInv
<1>6. CASE /\ publisher.step = "publish" /\ publisher' = Stop!Rest
           /\ biz' = [biz EXCEPT !.published = @ \cup {publisher.m}]
  <2>1. publisher.m \in Messages
    BY <1>4, <1>6 DEF BizInv, Publishes
  <2>2. /\ biz' \in [open: BOOLEAN, queue: Seq(Messages), published: SUBSET Messages]
        /\ biz'.queue = biz.queue /\ biz'.published = biz.published \cup {publisher.m}
        /\ biz'.open = biz.open
    BY <1>4, <1>6, <2>1 DEF BizInv
  <2>3. publisher' = [step |-> "idle"]
    BY <1>6 DEF Stop!Rest
  <2>4. Held = {publisher.m} /\ Queued' = Queued
    BY <1>6, <2>2 DEF Held, Queued
  <2>5. Given \subseteq Given'
    BY <1>1, <2>2, <2>4 DEF Given
  <2>6. BizInv'
    BY <1>1, <1>4, <2>2, <2>3, <2>5 DEF BizInv
  <2>7. QED
    BY <1>2, <1>3, <2>6 DEF StopInv
<1>7. CASE /\ publisher = Stop!Rest /\ biz.queue = <<>> /\ ~biz.open
           /\ publisher' = [step |-> "done"] /\ biz' = biz
  <2>1. Held = {} /\ Queued' = Queued
    BY <1>7 DEF Held, Queued, Stop!Rest
  <2>2. Given \subseteq Given'
    BY <1>1, <1>7, <2>1 DEF Given
  <2>3. BizInv'
    BY <1>1, <1>4, <1>7, <2>2 DEF BizInv
  <2>4. QED
    BY <1>2, <1>3, <2>3 DEF StopInv
<1>8. QED
  BY <1>5, <1>6, <1>7 DEF Stop!Publish

LEMMA StopStep ==
  ASSUME StopInv, Stop!Next \/ UNCHANGED stopVars
  PROVE  StopInv'
<1>1. CASE UNCHANGED stopVars
  BY <1>1, BizStays, HandlerStays, LabelStays DEF stopVars, StopInv
<1>2. CASE Stop!Next
  BY <1>2, MainStep, HandlerStep, EventStep, ConsumerStep, PublishStep, LabelStep DEF Stop!Next
<1>3. QED
  BY <1>1, <1>2

\* The two ways in which the parts are sound follow.
LEMMA StopSound ==
  ASSUME StopInv
  PROVE  Stop!CommittedHandedOver /\ Stop!BusinessDrained /\ Stop!LabelsBeforeClose
<1>1. Stop!CommittedHandedOver
  <2>1. \A m \in Given : \/ m \in skipped \cup biz.published
                         \/ \E i \in 1..Len(biz.queue) : biz.queue[i] = m
                         \/ publisher.step = "publish" /\ publisher.m = m
    BY DEF Given, Queued, Held
  <2>2. biz.queue \in Seq(Messages) /\ committed \subseteq Given
    BY DEF StopInv, BizInv
  <2>3. DOMAIN biz.queue = 1..Len(biz.queue)
    BY <2>2
  <2>4. QED
    BY <2>1, <2>2, <2>3 DEF Stop!CommittedHandedOver
<1>2. Stop!BusinessDrained
  <2>1. handler \in HandlerRows
    BY DEF StopInv, HandlerInv
  <2>2. \A s \in {"executor", "server"} : handler # <<>> /\ Head(handler) = s => handler \in HandlerDone
    BY <2>1 DEF HandlerRows, HandlerDone
  <2>3. handler = <<>> => handler \in HandlerDone
    BY DEF HandlerDone
  <2>4. handler \in HandlerDone => biz.queue = <<>> /\ publisher = [step |-> "done"]
    BY DEF StopInv, HandlerInv, BizInv
  <2>5. QED
    BY <2>2, <2>3, <2>4 DEF Stop!BusinessDrained
<1>3. Stop!LabelsBeforeClose
  BY PlatformAssumption DEF StopInv, LabelInv, Stop!LabelsBeforeClose
<1>4. QED
  BY <1>1, <1>2, <1>3

(* From its start to its end the server's life is sound (cmd/main.go,
   k8sresource_service.go): no absent part crashes it but in the three cases the
   code has, what runs in the background is stopped before the connections are
   closed, a committed message was handed over, the channel of the topic is empty
   when the service has stopped, and the graph outlives the label workers. *)
THEOREM ServerLifeAlwaysSound == Spec => []ServerLifeSound
<1> DEFINE Inv == (part = "server" => StartInv) /\ (part = "stop" => StopInv)
<1>1. Init => Inv
  BY StartStart, StopStart
<1>2. Inv /\ [Next]_allVars => Inv'
  <2>1. ASSUME Inv, [Next]_allVars, part' = "server" PROVE StartInv'
    <3>1. part = "server"
      BY <2>1 DEF Next, allVars
    <3>2. QED
      BY <2>1, <3>1, StartSteps, StartStep
  <2>2. ASSUME Inv, [Next]_allVars, part' = "stop" PROVE StopInv'
    <3>1. part = "stop"
      BY <2>2 DEF Next, allVars
    <3>2. QED
      BY <2>2, <3>1, StopSteps, StopStep
  <2>3. QED
    BY <2>1, <2>2
<1>3. Inv => ServerLifeSound
  <2>1. StartInv => Server!AbsenceTolerated /\ Server!StoppedBeforeClosed
    BY DEF StartInv, Alarm, Server!AbsenceTolerated, Server!StoppedBeforeClosed
  <2>2. QED
    BY <2>1, StopSound DEF ServerLifeSound
<1> HIDE DEF Inv
<1>4. QED
  BY <1>1, <1>2, <1>3, PTL DEF Spec, allVars

-----------------------------------------------------------------------------
(* The token file of the command line client.                                *)

Token == [access: Nat, expiry: Nat]
Tokens == UNION {[S -> Token] : S \in SUBSET Servers}
Process ==
  [job: {"none", "login", "command", "logout"},
   stage: {"gone", "listen", "client", "remove", "shutdown", "exchange", "save", "refresh",
           "flags", "truncate", "write"},
   server: Servers \cup {""}, flag: BOOLEAN, callback: {"", "ours", "other", "denied"},
   step: Nat, read: Tokens, access: Nat, expiry: Nat, uses: {"", "environment", "file"},
   ended: {"", "denied", "mismatch", "failed", "ran", "in", "out", "interrupted"}]
Saves(r) == r.stage \in {"truncate", "write"}
\* A process that is not over has a server; one that ended for another state
\* came back with another one.
Honest(r) == /\ r.stage # "gone" => r.server \in Servers
             /\ r.ended = "mismatch" => r.stage = "gone" /\ r.callback # "ours"
\* While no saves cross, one process saves at a time, what it has read is what
\* was saved, and a torn file is being written.
FileInv ==
  ~cliCrossed =>
    /\ \A p, o \in Procs : Saves(proc[p]) /\ Saves(proc[o]) => p = o
    /\ \A p \in Procs : Saves(proc[p]) => proc[p].read = tokens
    /\ file.state # "torn" => file.entries = tokens
    /\ file.state = "torn" => \E p \in Procs : proc[p].stage = "write"
CliInv ==
  /\ clock \in Nat /\ serial \in Nat /\ tokens \in Tokens
  /\ file \in [state: {"none", "whole", "torn"}, entries: Tokens]
  /\ cliCrossed \in BOOLEAN
  /\ proc \in [Procs -> Process]
  /\ \A p \in Procs : Honest(proc[p])
  /\ FileInv

LEMMA CliSteps ==
  ASSUME part = "client", [Next]_allVars
  PROVE  part' = part /\ (Client!Next \/ UNCHANGED cliVars)
BY DEF Next, GraphNext, PlatformNext, GraphParts, allVars, graphVars, platformVars

LEMMA EmptyTokens == Client!Empty \in Tokens
<1>1. Client!Empty \in [{} -> Token]
  BY DEF Client!Empty
<1>2. QED
  BY <1>1 DEF Tokens

LEMMA GoneProcess ==
  Client!Gone \in Process /\ Client!Gone.stage = "gone" /\ Client!Gone.ended = ""
BY EmptyTokens DEF Client!Gone, Process

LEMMA ProcessFields ==
  ASSUME NEW o \in Process
  PROVE  /\ "stage" \in DOMAIN o /\ "ended" \in DOMAIN o /\ "server" \in DOMAIN o
         /\ "callback" \in DOMAIN o /\ "read" \in DOMAIN o /\ "uses" \in DOMAIN o
         /\ "access" \in DOMAIN o /\ "expiry" \in DOMAIN o /\ "step" \in DOMAIN o
         /\ o = [x \in DOMAIN o |-> o[x]]
BY DEF Process

LEMMA CliStart ==
  ASSUME Init, part = "client"
  PROVE  CliInv
<1>1. Client!Init
  BY DEF Init
<1>2. proc \in [Procs -> Process] /\ \A p \in Procs : proc[p].stage = "gone" /\ proc[p].ended = ""
  BY <1>1, GoneProcess DEF Client!Init
<1>3. file \in [state: {"none", "whole", "torn"}, entries: Tokens]
      /\ file.state = "none" /\ file.entries = Client!Empty /\ tokens = Client!Empty
  BY <1>1, EmptyTokens DEF Client!Init, Client!NoFile
<1>4. FileInv
  BY <1>2, <1>3 DEF FileInv, Saves
<1>5. QED
  BY <1>1, <1>2, <1>3, <1>4, EmptyTokens DEF Client!Init, CliInv, Honest

\* One process goes on and does not begin to save.
LEMMA ProcessGoesOn ==
  ASSUME CliInv, NEW p \in Procs, NEW r \in Process,
         proc' = [proc EXCEPT ![p] = r], Honest(r), ~Saves(r),
         proc[p].stage = "write" => cliCrossed', cliCrossed => cliCrossed',
         cliCrossed' \in BOOLEAN, clock' \in Nat, serial' \in Nat,
         file' = file, tokens' = tokens
  PROVE  CliInv'
<1>1. /\ proc' \in [Procs -> Process] /\ proc'[p] = r
      /\ \A o \in Procs : o # p => proc'[o] = proc[o]
  BY DEF CliInv
<1>2. \A o \in Procs : Honest(proc[o])'
  BY <1>1 DEF CliInv, Honest
<1>3. FileInv'
  BY <1>1 DEF CliInv, FileInv, Saves
<1>4. QED
  BY <1>1, <1>2, <1>3 DEF CliInv

LEMMA StartJob ==
  ASSUME CliInv, NEW p \in Procs, NEW job \in {"login", "command", "logout"},
         NEW s \in Servers, NEW flag \in BOOLEAN, Client!Start(p, job, s, flag)
  PROVE  CliInv'
<1> DEFINE at == CASE job = "login" -> "listen" [] job = "command" -> "client" [] OTHER -> "remove"
           new == [Client!Gone EXCEPT !.job = job, !.server = s, !.flag = flag, !.stage = at]
<1>1. at \in {"listen", "client", "remove"}
  OBVIOUS
<1>2. /\ proc' = [proc EXCEPT ![p] = new] /\ proc[p].stage = "gone"
      /\ UNCHANGED <<clock, file, serial, tokens, cliCrossed>>
  BY DEF Client!Start
<1> HIDE DEF at
<1>3. new \in Process /\ Honest(new) /\ ~Saves(new)
  BY <1>1, GoneProcess DEF Process, Honest, Saves
<1> HIDE DEF new
<1>4. PICK r \in Process : r = new /\ Honest(r) /\ ~Saves(r)
  BY <1>3 DEF Honest, Saves
<1>5. QED
  BY <1>2, <1>4, ProcessGoesOn DEF CliInv

\* What the browser and the main goroutine of a login do.
LEMMA LoginStep ==
  ASSUME CliInv, NEW p \in Procs,
         \/ \E kind \in {"ours", "other", "denied"} : Client!Callback(p, kind)
         \/ Client!CallbackEnds(p) \/ Client!Polled(p) \/ Client!CheckState(p)
         \/ Client!ExchangeFails(p)
  PROVE  CliInv'
<1>1. PICK o \in Process : o = proc[p] /\ Honest(o)
  BY DEF CliInv, Honest
<1>2. /\ UNCHANGED <<clock, file, serial, tokens, cliCrossed>>
      /\ o.stage \in {"listen", "shutdown", "exchange"}
  BY <1>1 DEF Client!Callback, Client!CallbackEnds, Client!Polled, Client!CheckState,
              Client!ExchangeFails, Client!At
<1>3. o.server \in Servers /\ o.ended # "mismatch"
  BY <1>1, <1>2 DEF Honest
<1>4. ASSUME NEW new \in Process, proc' = [proc EXCEPT ![p] = new], Honest(new), ~Saves(new)
      PROVE  CliInv'
  BY <1>1, <1>2, <1>4, ProcessGoesOn DEF CliInv
<1>5. CASE \E kind \in {"ours", "other", "denied"} : Client!Callback(p, kind)
  <2>1. PICK kind \in {"ours", "other", "denied"} : Client!Callback(p, kind)
    BY <1>5
  <2>2. PICK new \in Process : new = [o EXCEPT !.callback = kind, !.step = 1]
    BY DEF Process
  <2>3. proc' = [proc EXCEPT ![p] = new]
    BY <1>1, <2>1, <2>2 DEF Client!Callback, CliInv
  <2>4. new.stage = o.stage /\ new.ended = o.ended /\ new.server = o.server
    BY <2>2, ProcessFields
  <2>5. Honest(new) /\ ~Saves(new)
    BY <1>2, <1>3, <2>4 DEF Honest, Saves
  <2>6. QED
    BY <1>4, <2>3, <2>5
<1>6. CASE Client!CallbackEnds(p)
  <2>1. PICK new \in Process : new = [o EXCEPT !.step = 2]
    BY DEF Process
  <2>2. proc' = [proc EXCEPT ![p] = new]
    BY <1>1, <1>6, <2>1 DEF Client!CallbackEnds, CliInv
  <2>3. Honest(new) /\ ~Saves(new)
    BY <1>2, <1>3, <2>1, ProcessFields DEF Honest, Saves
  <2>4. QED
    BY <1>4, <2>2, <2>3
<1>7. CASE Client!Polled(p)
  <2>1. PICK new \in Process : new = [o EXCEPT !.stage = "shutdown"]
    BY DEF Process
  <2>2. proc' = [proc EXCEPT ![p] = new]
    BY <1>1, <1>7, <2>1 DEF Client!Polled, CliInv
  <2>3. Honest(new) /\ ~Saves(new)
    BY <1>2, <1>3, <2>1, ProcessFields DEF Honest, Saves
  <2>4. QED
    BY <1>4, <2>2, <2>3
<1>8. CASE proc' = Client!End(p, "denied") \/ proc' = Client!End(p, "failed")
             \/ (proc' = Client!End(p, "mismatch") /\ o.callback # "ours")
  <2>1. PICK how \in {"denied", "failed", "mismatch"} :
          proc' = Client!End(p, how) /\ (how = "mismatch" => o.callback # "ours")
    BY <1>8
  <2>2. PICK new \in Process : new = [o EXCEPT !.stage = "gone", !.ended = how]
    BY DEF Process
  <2>3. proc' = [proc EXCEPT ![p] = new]
    BY <1>1, <2>1, <2>2 DEF Client!End, CliInv
  <2>4. new.stage = "gone" /\ new.ended = how /\ new.callback = o.callback
    BY <2>2, ProcessFields
  <2>5. Honest(new) /\ ~Saves(new)
    BY <2>1, <2>4 DEF Honest, Saves
  <2>6. QED
    BY <1>4, <2>3, <2>5
<1>9. CASE proc' = [proc EXCEPT ![p].stage = "exchange"]
  <2>1. PICK new \in Process : new = [o EXCEPT !.stage = "exchange"]
    BY DEF Process
  <2>2. proc' = [proc EXCEPT ![p] = new]
    BY <1>1, <1>9, <2>1 DEF CliInv
  <2>3. Honest(new) /\ ~Saves(new)
    BY <1>3, <2>1, ProcessFields DEF Honest, Saves
  <2>4. QED
    BY <1>4, <2>2, <2>3
<1>10. CASE Client!CheckState(p)
  <2>1. o.step = 2
    BY <1>1, <1>10 DEF Client!CheckState, Client!HandlerDone
  <2>2. QED
    BY <1>1, <1>8, <1>9, <1>10, <2>1 DEF Client!CheckState, Client!StateStored
<1>11. CASE Client!ExchangeFails(p)
  BY <1>8, <1>11 DEF Client!ExchangeFails
<1>12. QED
  BY <1>5, <1>6, <1>7, <1>10, <1>11

\* What the client of a command does, and a new token for either.
LEMMA CommandStep ==
  ASSUME CliInv, NEW p \in Procs,
         \/ Client!BuildClient(p) \/ Client!RefreshFails(p) \/ Client!RunCommand(p)
         \/ Client!Exchange(p) \/ Client!Refresh(p)
  PROVE  CliInv'
<1>1. PICK o \in Process : o = proc[p] /\ Honest(o)
  BY DEF CliInv, Honest
<1>2. /\ UNCHANGED <<clock, file, tokens, cliCrossed>>
      /\ o.stage \in {"client", "refresh", "flags", "exchange"}
  BY <1>1 DEF Client!BuildClient, Client!RefreshFails, Client!RunCommand, Client!Exchange,
              Client!Refresh, Client!Issued, Client!At
<1>3. o.server \in Servers /\ o.ended # "mismatch"
  BY <1>1, <1>2 DEF Honest
<1>4. ASSUME NEW new \in Process, proc' = [proc EXCEPT ![p] = new], Honest(new), ~Saves(new),
             serial' \in Nat
      PROVE  CliInv'
  BY <1>1, <1>2, <1>4, ProcessGoesOn DEF CliInv
<1>5. CASE Client!Exchange(p) \/ Client!Refresh(p)
  <2>0. TokenLife \in Nat
    BY PlatformAssumption
  <2>1. PICK n \in Nat, e \in Nat : n = serial + 1 /\ e = clock + TokenLife
    BY <2>0 DEF CliInv
  <2>2. PICK new \in Process : new = [o EXCEPT !.stage = "save", !.access = n, !.expiry = e]
    BY DEF Process
  <2>3. proc' = [proc EXCEPT ![p] = new] /\ serial' = n
    BY <1>1, <1>5, <2>1, <2>2 DEF Client!Exchange, Client!Refresh, Client!Issued, CliInv
  <2>4. Honest(new) /\ ~Saves(new)
    BY <1>3, <2>2, ProcessFields DEF Honest, Saves
  <2>5. QED
    BY <1>4, <2>3, <2>4
<1>6. CASE Client!BuildClient(p) \/ Client!RefreshFails(p)
  <2>1. serial' \in Nat
    BY <1>6 DEF Client!BuildClient, Client!RefreshFails, CliInv
  <2>2. \/ proc' = [proc EXCEPT ![p].stage = "refresh"]
        \/ \E u \in {"environment", "file"} :
             proc' = [proc EXCEPT ![p].stage = "flags", ![p].uses = u]
    BY <1>6 DEF Client!BuildClient, Client!RefreshFails
  <2>3. CASE proc' = [proc EXCEPT ![p].stage = "refresh"]
    <3>1. PICK new \in Process : new = [o EXCEPT !.stage = "refresh"]
      BY DEF Process
    <3>2. proc' = [proc EXCEPT ![p] = new]
      BY <1>1, <2>3, <3>1 DEF CliInv
    <3>3. Honest(new) /\ ~Saves(new)
      BY <1>3, <3>1, ProcessFields DEF Honest, Saves
    <3>4. QED
      BY <1>4, <2>1, <3>2, <3>3
  <2>4. ASSUME NEW u \in {"environment", "file"},
               proc' = [proc EXCEPT ![p].stage = "flags", ![p].uses = u]
        PROVE  CliInv'
    <3>1. PICK new \in Process : new = [o EXCEPT !.stage = "flags", !.uses = u]
      BY DEF Process
    <3>2. proc' = [proc EXCEPT ![p] = new]
      BY <1>1, <2>4, <3>1 DEF CliInv
    <3>3. Honest(new) /\ ~Saves(new)
      BY <1>3, <3>1, ProcessFields DEF Honest, Saves
    <3>4. QED
      BY <1>4, <2>1, <3>2, <3>3
  <2>5. QED
    BY <2>2, <2>3, <2>4
<1>7. CASE Client!RunCommand(p)
  <2>1. PICK new \in Process :
          new = [o EXCEPT !.stage = "gone", !.ended = "ran", !.uses = o.uses]
    BY DEF Process
  <2>2. proc' = [proc EXCEPT ![p] = new]
    BY <1>1, <1>7, <2>1 DEF Client!RunCommand, Client!End, Client!Chosen, CliInv
  <2>3. Honest(new) /\ ~Saves(new)
    BY <2>1, ProcessFields DEF Honest, Saves
  <2>4. serial' \in Nat
    BY <1>7 DEF Client!RunCommand, CliInv
  <2>5. QED
    BY <1>4, <2>2, <2>3, <2>4
<1>8. QED
  BY <1>5, <1>6, <1>7

LEMMA Merging ==
  ASSUME NEW s \in Servers, NEW e \in Token, NEW f \in Tokens
  PROVE  Client!Put(f, s, e) \in Tokens
<1>1. PICK S \in SUBSET Servers : f \in [S -> Token]
  BY DEF Tokens
<1>2. Client!Put(f, s, e) \in [S \cup {s} -> Token]
  BY <1>1 DEF Client!Put
<1>3. QED
  BY <1>2 DEF Tokens

LEMMA ReadToSaveStep ==
  ASSUME CliInv, NEW p \in Procs, Client!ReadToSave(p)
  PROVE  CliInv'
<1>1. PICK o \in Process : o = proc[p] /\ Honest(o)
  BY DEF CliInv, Honest
<1>2. /\ o.stage = "save" /\ UNCHANGED <<clock, file, serial, tokens>>
      /\ cliCrossed' = (cliCrossed \/ \E q \in Procs \ {p} : Saves(proc[q]))
      /\ cliCrossed \in BOOLEAN
  BY <1>1 DEF Client!ReadToSave, Client!Saving, Saves, CliInv
<1>3. o.server \in Servers /\ o.ended # "mismatch" /\ cliCrossed' \in BOOLEAN
  BY <1>1, <1>2 DEF Honest
<1>4. CASE proc' = [proc EXCEPT ![p].stage = "flags", ![p].uses = "environment"]
  <2>1. PICK new \in Process : new = [o EXCEPT !.stage = "flags", !.uses = "environment"]
    BY DEF Process
  <2>2. proc' = [proc EXCEPT ![p] = new]
    BY <1>1, <1>4, <2>1 DEF CliInv
  <2>3. Honest(new) /\ ~Saves(new)
    BY <1>3, <2>1, ProcessFields DEF Honest, Saves
  <2>4. QED
    BY <1>1, <1>2, <1>3, <2>2, <2>3, ProcessGoesOn DEF CliInv
<1>5. CASE proc' = [proc EXCEPT ![p].stage = "truncate", ![p].read = file.entries]
  <2>1. file.entries \in Tokens
    BY DEF CliInv
  <2>2. PICK new \in Process : new = [o EXCEPT !.stage = "truncate", !.read = file.entries]
    BY <2>1 DEF Process
  <2>3. proc' = [proc EXCEPT ![p] = new]
    BY <1>1, <1>5, <2>2 DEF CliInv
  <2>4. Honest(new) /\ new.stage = "truncate" /\ new.read = file.entries
    BY <1>3, <2>2, ProcessFields DEF Honest
  <2>5. /\ proc' \in [Procs -> Process] /\ proc'[p] = new
        /\ \A q \in Procs : q # p => proc'[q] = proc[q]
    BY <2>3 DEF CliInv
  <2>6. \A q \in Procs : Honest(proc[q])'
    BY <2>4, <2>5 DEF CliInv, Honest
  <2>7. FileInv'
    <3>1. ASSUME ~cliCrossed' PROVE ~cliCrossed /\ FileInv /\ \A q \in Procs : ~Saves(proc[q])
      BY <1>1, <1>2, <3>1 DEF CliInv, Saves
    <3>2. ASSUME ~cliCrossed' PROVE file.state # "torn" /\ file.entries = tokens
      BY <3>1, <3>2 DEF FileInv, Saves
    <3>3. ASSUME ~cliCrossed', NEW q \in Procs, Saves(proc[q])' PROVE q = p
      BY <2>5, <3>1, <3>3 DEF Saves
    <3>4. QED
      BY <1>2, <2>4, <2>5, <3>2, <3>3 DEF FileInv
  <2>8. QED
    BY <1>2, <1>3, <2>5, <2>6, <2>7 DEF CliInv
<1>6. QED
  BY <1>4, <1>5 DEF Client!ReadToSave

LEMMA TruncateStep ==
  ASSUME CliInv, NEW p \in Procs, Client!Truncate(p)
  PROVE  CliInv'
<1>1. PICK o \in Process : o = proc[p] /\ Honest(o)
  BY DEF CliInv, Honest
<1>2. o.stage = "truncate" /\ UNCHANGED <<clock, serial, tokens, cliCrossed>>
  BY <1>1 DEF Client!Truncate
<1>3. PICK new \in Process : new = [o EXCEPT !.stage = "write"]
  BY DEF Process
<1>4. proc' = [proc EXCEPT ![p] = new]
  BY <1>1, <1>3 DEF Client!Truncate, CliInv
<1>5. Honest(new) /\ new.stage = "write" /\ new.read = o.read
  BY <1>1, <1>2, <1>3, ProcessFields DEF Honest
<1>6. /\ proc' \in [Procs -> Process] /\ proc'[p] = new
      /\ \A q \in Procs : q # p => proc'[q] = proc[q]
  BY <1>4 DEF CliInv
<1>7. \A q \in Procs : Honest(proc[q])'
  BY <1>5, <1>6 DEF CliInv, Honest
<1>8. file' \in [state: {"none", "whole", "torn"}, entries: Tokens] /\ file'.state = "torn"
  BY EmptyTokens DEF Client!Truncate, Client!Torn
<1>9. FileInv'
  BY <1>1, <1>2, <1>5, <1>6, <1>8 DEF CliInv, FileInv, Saves
<1>10. QED
  BY <1>2, <1>6, <1>7, <1>8, <1>9 DEF CliInv

LEMMA WriteStep ==
  ASSUME CliInv, NEW p \in Procs, Client!Write(p)
  PROVE  CliInv'
<1>1. PICK o \in Process : o = proc[p] /\ Honest(o)
  BY DEF CliInv, Honest
<1>2. o.stage = "write" /\ UNCHANGED <<clock, serial, cliCrossed>>
  BY <1>1 DEF Client!Write
<1>3. o.server \in Servers
  BY <1>1, <1>2 DEF Honest
<1>4. PICK e \in Token : e = Client!Entry(o.access, o.expiry)
  BY DEF Client!Entry, Token, Process
<1> DEFINE merged == Client!Put(o.read, o.server, e)
           serially == Client!Put(tokens, o.server, e)
<1>5. merged \in Tokens /\ serially \in Tokens /\ (o.read = tokens => merged = serially)
  <2>1. o.read \in Tokens /\ tokens \in Tokens
    BY DEF CliInv, Process
  <2>2. QED
    BY <1>3, <2>1, Merging
<1>6. file' = Client!Whole(merged) /\ tokens' = serially
  BY <1>1, <1>4 DEF Client!Write, Client!Merged
<1> HIDE DEF merged, serially
<1>7. /\ file' \in [state: {"none", "whole", "torn"}, entries: Tokens]
      /\ file'.state = "whole" /\ file'.entries = merged
  BY <1>5, <1>6 DEF Client!Whole
<1>8. PICK new \in Process : /\ proc' = [proc EXCEPT ![p] = new]
                             /\ Honest(new) /\ ~Saves(new)
  <2>1. CASE o.job = "login"
    <3>1. PICK new \in Process : new = [o EXCEPT !.stage = "gone", !.ended = "in"]
      BY DEF Process
    <3>2. proc' = [proc EXCEPT ![p] = new]
      BY <1>1, <2>1, <3>1 DEF Client!Write, Client!End, CliInv
    <3>3. QED
      BY <3>1, <3>2, ProcessFields DEF Honest, Saves
  <2>2. CASE o.job # "login"
    <3>1. PICK new \in Process : new = [o EXCEPT !.stage = "flags", !.uses = "file"]
      BY DEF Process
    <3>2. proc' = [proc EXCEPT ![p] = new]
      BY <1>1, <2>2, <3>1 DEF Client!Write, CliInv
    <3>3. QED
      BY <1>1, <1>2, <1>3, <3>1, <3>2, ProcessFields DEF Honest, Saves
  <2>3. QED
    BY <2>1, <2>2
<1>9. /\ proc' \in [Procs -> Process] /\ proc'[p] = new
      /\ \A q \in Procs : q # p => proc'[q] = proc[q]
  BY <1>8 DEF CliInv
<1>10. \A q \in Procs : Honest(proc[q])'
  BY <1>8, <1>9 DEF CliInv, Honest
<1>11. FileInv'
  <2>1. ASSUME ~cliCrossed' PROVE o.read = tokens /\ \A q \in Procs : ~Saves(proc[q])'
    <3>1. FileInv /\ ~cliCrossed /\ Saves(proc[p])
      BY <1>1, <1>2, <2>1 DEF CliInv, Saves
    <3>2. QED
      BY <1>1, <1>8, <1>9, <3>1 DEF FileInv, Saves
  <2>2. QED
    BY <1>5, <1>6, <1>7, <2>1 DEF FileInv
<1>12. QED
  BY <1>2, <1>5, <1>6, <1>7, <1>9, <1>10, <1>11 DEF CliInv

LEMMA RemoveStep ==
  ASSUME CliInv, NEW p \in Procs, Client!RemoveFile(p)
  PROVE  CliInv'
<1>1. PICK o \in Process : o = proc[p]
  BY DEF CliInv
<1>2. /\ o.stage = "remove" /\ UNCHANGED <<clock, serial>>
      /\ cliCrossed' = \E q \in Procs : Saves(proc[q])
  BY <1>1 DEF Client!RemoveFile, Client!At, Client!Saving, Saves
<1>3. PICK new \in Process : new = [o EXCEPT !.stage = "gone", !.ended = "out"]
  BY DEF Process
<1>4. proc' = [proc EXCEPT ![p] = new]
  BY <1>1, <1>3 DEF Client!RemoveFile, Client!End, CliInv
<1>5. Honest(new) /\ ~Saves(new)
  BY <1>3, ProcessFields DEF Honest, Saves
<1>6. /\ proc' \in [Procs -> Process] /\ proc'[p] = new
      /\ \A q \in Procs : q # p => proc'[q] = proc[q]
  BY <1>4 DEF CliInv
<1>7. \A q \in Procs : Honest(proc[q])'
  BY <1>5, <1>6 DEF CliInv, Honest
<1>8. /\ file' \in [state: {"none", "whole", "torn"}, entries: Tokens] /\ file'.state = "none"
      /\ file'.entries = Client!Empty /\ tokens' = Client!Empty
  BY EmptyTokens DEF Client!RemoveFile, Client!NoFile
<1>9. FileInv'
  <2>1. ASSUME ~cliCrossed' PROVE \A q \in Procs : ~Saves(proc[q])'
    BY <1>2, <1>5, <1>6, <2>1 DEF Saves
  <2>2. QED
    BY <1>8, <2>1 DEF FileInv
<1>10. cliCrossed' \in BOOLEAN
  BY <1>2
<1>11. QED
  BY <1>2, <1>6, <1>7, <1>8, <1>9, <1>10, EmptyTokens DEF CliInv

LEMMA InterruptStep ==
  ASSUME CliInv, NEW p \in Procs, Client!Interrupt(p)
  PROVE  CliInv'
<1>1. PICK o \in Process : o = proc[p]
  BY DEF CliInv
<1>2. /\ UNCHANGED <<clock, serial, file, tokens>> /\ cliCrossed \in BOOLEAN
      /\ cliCrossed' = (cliCrossed \/ o.stage = "write")
  BY <1>1 DEF Client!Interrupt, CliInv
<1>3. PICK new \in Process : new = [o EXCEPT !.stage = "gone", !.ended = "interrupted"]
  BY DEF Process
<1>4. proc' = [proc EXCEPT ![p] = new]
  BY <1>1, <1>3 DEF Client!Interrupt, Client!End, CliInv
<1>5. Honest(new) /\ ~Saves(new)
  BY <1>3, ProcessFields DEF Honest, Saves
<1>6. cliCrossed' \in BOOLEAN /\ (cliCrossed => cliCrossed')
      /\ (proc[p].stage = "write" => cliCrossed')
  BY <1>1, <1>2
<1>7. QED
  BY <1>2, <1>4, <1>5, <1>6, ProcessGoesOn DEF CliInv

LEMMA CliStep ==
  ASSUME CliInv, Client!Next \/ UNCHANGED cliVars
  PROVE  CliInv'
<1>1. CASE UNCHANGED cliVars
  BY <1>1 DEF cliVars, CliInv, FileInv, Honest, Saves
<1>2. CASE Client!Tick
  <2>1. clock' \in Nat /\ UNCHANGED <<file, proc, serial, tokens, cliCrossed>>
    BY <1>2 DEF Client!Tick, CliInv
  <2>2. QED
    BY <2>1 DEF CliInv, FileInv, Honest, Saves
<1>3. CASE \E p \in Procs, job \in {"login", "command", "logout"}, s \in Servers,
             flag \in BOOLEAN : Client!Start(p, job, s, flag)
  BY <1>3, StartJob
<1>4. QED
  BY <1>1, <1>2, <1>3, LoginStep, CommandStep, ReadToSaveStep, TruncateStep, WriteStep,
     RemoveStep, InterruptStep DEF Client!Next

-----------------------------------------------------------------------------
(* The limiter of logins.                                                    *)

Key == [n: Nat, until: Nat]
Try == [stage: {"idle", "expire", "locked?", "verify", "expireFail", "lock"}, count: Nat,
        stale: BOOLEAN, refused: {"no", "address", "account"}]
\* The calls of the address: all of them, those of this moment, and those that
\* are not older than a minute at some time.
Counts == DOMAIN counted
CountedNow == {i \in Counts : counted[i] = now}
Within(t) == {i \in Counts : counted[i] + Minute >= t}
Recent == {i \in Counts : counted[i] + Minute > now}
\* The first call of a counter, which has yet to give it its expiry.
GivesFirst(r) == r.stage = "expire" /\ r.count = 1
Failing(r) == r.stage \in {"expireFail", "lock"}
LoginType ==
  /\ now \in Nat /\ limiterFaults \in Nat /\ inARow \in Nat /\ overtaken \in BOOLEAN
  /\ address \in Key /\ failures \in Key /\ lock \in Key
  /\ attempt \in [Attempts -> Try]
  /\ \E k \in Nat : counted \in [1..k -> Nat]

\* As long as no call is lost, a counter of an address that is still there is
\* of the last minute, whoever else counts between its call and its expiry.
AddressInv ==
  limiterFaults = 0 =>
    /\ \A a, b \in Attempts : GivesFirst(attempt[a]) /\ GivesFirst(attempt[b]) => a = b
    /\ (\E a \in Attempts : GivesFirst(attempt[a])) =>
         address.n > 0 /\ address.n <= Cardinality(CountedNow)
    /\ (address.n > 0 /\ \A a \in Attempts : ~GivesFirst(attempt[a])) =>
         /\ now < address.until /\ address.until <= now + Minute
         /\ address.n <= Cardinality(Within(address.until))
    /\ \A a \in Attempts : attempt[a].stage = "expire" =>
         attempt[a].count > 0 /\ attempt[a].count <= address.n
    /\ \A a \in Attempts : attempt[a].refused = "address" => Cardinality(Recent) > PerMinute

\* Once there are enough failures a request on its way locks the account, or the
\* lock is there and outlives the counter, unless its expiry is renewed at this moment.
OnItsWayToLock == \E a \in Attempts : Failing(attempt[a]) /\ attempt[a].count >= Enough
LockInv ==
  failures.n >= Enough =>
    /\ \/ failures.until <= now + Quarter
       \/ \E a \in Attempts : attempt[a].stage = "expireFail" /\ attempt[a].count >= Enough
    /\ \/ OnItsWayToLock
       \/ /\ lock.n > 0 /\ failures.until <= lock.until
          /\ (\E a \in Attempts : attempt[a].stage = "expireFail") => now + Quarter <= lock.until
\* The counter is that of the failures since the last login; one that no login
\* overtook is among them, and locks for no longer than they count.
FailureInv ==
  /\ failures.n = inARow
  /\ \A a \in Attempts : Failing(attempt[a]) /\ ~attempt[a].stale =>
       /\ attempt[a].count > 0 /\ attempt[a].count <= failures.n
       /\ attempt[a].stage = "lock" => now + Quarter <= failures.until
  /\ lock.n > 0 => lock.until <= now + Quarter
  /\ lock.n > 0 /\ ~overtaken => inARow >= Enough /\ lock.until <= failures.until
LoginInv == LoginType /\ AddressInv /\ LockInv /\ FailureInv

\* The limits and times of the limiter.
LEMMA LimiterTimes ==
  /\ LoginTime \in Nat /\ Minute \in Nat /\ Minute > 0 /\ Quarter \in Nat
  /\ PerMinute \in Nat /\ Enough \in Nat /\ Enough > 0
<1>1. /\ LoginTime \in Nat /\ Minute \in Nat \ {0} /\ Quarter \in Nat
      /\ PerMinute \in Nat /\ Enough \in Nat \ {0}
  BY PlatformAssumption
<1>2. QED
  BY <1>1

LEMMA TryFields ==
  ASSUME NEW o \in Try
  PROVE  /\ "stage" \in DOMAIN o /\ "count" \in DOMAIN o /\ "stale" \in DOMAIN o
         /\ "refused" \in DOMAIN o /\ o = [x \in DOMAIN o |-> o[x]] /\ o.count \in Nat
BY DEF Try

LEMMA IdleTry ==
  Logins!Idle \in Try /\ Logins!Idle.stage = "idle" /\ Logins!Idle.refused = "no"
BY DEF Logins!Idle, Try

LEMMA LoginSteps ==
  ASSUME part = "logins", [Next]_allVars
  PROVE  part' = part /\ (Logins!Next \/ UNCHANGED loginVars)
BY DEF Next, GraphNext, PlatformNext, GraphParts, allVars, graphVars, platformVars

LEMMA LoginStart ==
  ASSUME Init, part = "logins"
  PROVE  LoginInv
<1>1. Logins!Init
  BY DEF Init
<1>2. Logins!Never \in Nat
  BY LimiterTimes DEF Logins!Never
<1>3. Logins!Absent \in Key /\ Logins!Absent.n = 0
  BY <1>2 DEF Logins!Absent, Key
<1>4. Logins!Idle \in Try /\ Logins!Idle.stage = "idle" /\ Logins!Idle.refused = "no"
  BY DEF Logins!Idle, Try
<1>5. counted \in [1..0 -> Nat]
  BY <1>1 DEF Logins!Init
<1>6. LoginType
  <2>1. \E k \in Nat : counted \in [1..k -> Nat]
    BY <1>5
  <2>2. QED
    BY <1>1, <1>3, <1>4, <2>1 DEF Logins!Init, LoginType
<1>7. \A a \in Attempts : attempt[a].stage = "idle" /\ attempt[a].refused = "no"
  BY <1>1, <1>4 DEF Logins!Init
<1>8. address.n = 0 /\ failures.n = 0 /\ lock.n = 0 /\ inARow = 0
  BY <1>1, <1>3 DEF Logins!Init
<1>9. QED
  BY <1>6, <1>7, <1>8, LimiterTimes
     DEF LoginInv, AddressInv, LockInv, FailureInv, GivesFirst, Failing

\* The calls are finitely many, those of this moment are recent, and one more
\* makes them one more.
LEMMA CountsFinite ==
  ASSUME LoginType, NEW t \in Nat
  PROVE  /\ IsFiniteSet(CountedNow) /\ IsFiniteSet(Within(t)) /\ IsFiniteSet(Recent)
         /\ Cardinality(CountedNow) \in Nat /\ Cardinality(Within(t)) \in Nat
         /\ Cardinality(Recent) \in Nat
         /\ Cardinality(CountedNow) <= Cardinality(Recent)
         /\ Cardinality(CountedNow) <= Cardinality(Within(now + Minute))
         /\ now < t => Cardinality(Within(t)) <= Cardinality(Recent)
<1>1. PICK k \in Nat : counted \in [1..k -> Nat]
  BY DEF LoginType
<1>2. IsFiniteSet(1..k)
  BY <1>1, FS_Interval
<1>3. /\ CountedNow \subseteq 1..k /\ Within(t) \subseteq 1..k /\ Recent \subseteq 1..k
      /\ Within(now + Minute) \subseteq 1..k
  BY <1>1 DEF CountedNow, Within, Recent, Counts
<1>4. IsFiniteSet(CountedNow) /\ IsFiniteSet(Within(t)) /\ IsFiniteSet(Recent)
      /\ IsFiniteSet(Within(now + Minute))
  BY <1>2, <1>3, FS_Subset
<1>5. now \in Nat /\ Minute \in Nat /\ Minute > 0
  BY LimiterTimes DEF LoginType
<1>6. CountedNow \subseteq Recent /\ CountedNow \subseteq Within(now + Minute)
  BY <1>1, <1>5 DEF CountedNow, Recent, Within, Counts
<1>7. now < t => Within(t) \subseteq Recent
  BY <1>1, <1>5 DEF Recent, Within, Counts
<1>8. QED
  BY <1>4, <1>6, <1>7, FS_Subset, FS_CardinalityType

LEMMA OneMoreCounted ==
  ASSUME LoginType, NEW k \in Nat, counted \in [1..k -> Nat], now' = now,
         counted' = [i \in 1..(k + 1) |-> IF i \in 1..k THEN counted[i] ELSE now],
         NEW t \in Nat
  PROVE  /\ counted' \in [1..(k + 1) -> Nat]
         /\ Cardinality(CountedNow') = Cardinality(CountedNow) + 1
         /\ Cardinality(Recent) <= Cardinality(Recent') /\ Cardinality(Recent') \in Nat
         /\ t <= now + Minute => Cardinality(Within(t)') = Cardinality(Within(t)) + 1
<1>1. now \in Nat /\ Minute \in Nat /\ Minute > 0 /\ k + 1 \in Nat /\ k + 1 \notin 1..k
  BY LimiterTimes DEF LoginType
<1>2. /\ counted' \in [1..(k + 1) -> Nat] /\ counted'[k + 1] = now
      /\ \A i \in 1..k : counted'[i] = counted[i]
  BY <1>1
<1>3. Counts = 1..k /\ Counts' = 1..(k + 1) /\ 1..(k + 1) = (1..k) \cup {k + 1}
  BY <1>1, <1>2 DEF Counts
<1>4. CountedNow' = CountedNow \cup {k + 1} /\ k + 1 \notin CountedNow
  BY <1>1, <1>2, <1>3 DEF CountedNow
<1>5. Recent \subseteq Recent'
  BY <1>1, <1>2, <1>3 DEF Recent
<1>6. t <= now + Minute => Within(t)' = Within(t) \cup {k + 1} /\ k + 1 \notin Within(t)
  BY <1>1, <1>2, <1>3 DEF Within
<1>7. IsFiniteSet(CountedNow) /\ IsFiniteSet(Within(t))
  BY CountsFinite
<1>8. IsFiniteSet(Recent')
  <2>1. IsFiniteSet(1..(k + 1))
    BY <1>1, FS_Interval
  <2>2. Recent' \subseteq 1..(k + 1)
    BY <1>3 DEF Recent
  <2>3. QED
    BY <2>1, <2>2, FS_Subset
<1>9. QED
  BY <1>2, <1>4, <1>5, <1>6, <1>7, <1>8, FS_AddElement, FS_Subset, FS_CardinalityType

\* A request that goes on elsewhere leaves the counter of the address alone.
LEMMA AddressStays ==
  ASSUME AddressInv, UNCHANGED <<address, counted, now, limiterFaults>>,
         \A a \in Attempts :
           \/ attempt'[a] = attempt[a]
           \/ /\ attempt[a].stage # "expire" /\ attempt'[a].stage # "expire"
              /\ attempt'[a].refused = "address" => attempt[a].refused = "address"
  PROVE  AddressInv'
<1>1. \A a \in Attempts : GivesFirst(attempt[a])' <=> GivesFirst(attempt[a])
  BY DEF GivesFirst
<1>2. /\ CountedNow' = CountedNow /\ Recent' = Recent
      /\ Within(address.until)' = Within(address.until)
  BY DEF CountedNow, Recent, Within, Counts
<1>3. \A a \in Attempts : attempt'[a].stage = "expire" => attempt'[a] = attempt[a]
  OBVIOUS
<1>4. \A a \in Attempts : attempt'[a].refused = "address" => attempt[a].refused = "address"
  OBVIOUS
<1>5. QED
  BY <1>1, <1>2, <1>3, <1>4 DEF AddressInv

LEMMA FailuresStay ==
  ASSUME LockInv, FailureInv, UNCHANGED <<failures, lock, now, inARow, overtaken>>,
         \A a \in Attempts :
           \/ attempt'[a] = attempt[a]
           \/ ~Failing(attempt[a]) /\ ~Failing(attempt'[a])
  PROVE  LockInv' /\ FailureInv'
<1>1. LockInv'
  BY DEF LockInv, OnItsWayToLock, Failing
<1>2. FailureInv'
  BY DEF FailureInv, Failing
<1>3. QED
  BY <1>1, <1>2

LEMMA CountStep ==
  ASSUME LoginInv, NEW a \in Attempts, Logins!CountAddress(a)
  PROVE  LoginInv'
<1>1. LoginType /\ address \in Key /\ attempt[a] \in Try /\ attempt \in [Attempts -> Try]
  BY DEF LoginInv, LoginType
<1>2. PICK n \in Nat, t \in Nat : address = [n |-> n, until |-> t]
  BY <1>1 DEF Key
<1>3. PICK m \in Nat : m = n + 1
  OBVIOUS
<1> DEFINE r == [Logins!Idle EXCEPT !.stage = "expire", !.count = m]
<1>4. /\ attempt[a].stage = "idle" /\ attempt' = [attempt EXCEPT ![a] = r]
      /\ address' = [n |-> m, until |-> t]
      /\ UNCHANGED <<now, failures, lock, inARow, overtaken, limiterFaults>>
  BY <1>2, <1>3 DEF Logins!CountAddress, Logins!At, Logins!Incr
<1>5. r \in Try /\ r.stage = "expire" /\ r.count = m /\ r.refused = "no"
  BY DEF Logins!Idle, Try
<1> HIDE DEF r
<1>6. PICK k \in Nat : counted \in [1..k -> Nat]
  BY <1>1 DEF LoginType
<1>7. counted' = [i \in 1..(k + 1) |-> IF i \in 1..k THEN counted[i] ELSE now]
  <2>1. DOMAIN counted = 1..k /\ Cardinality(1..k) = k
    BY <1>6, FS_Interval
  <2>2. Logins!Cardinality(1..k) = Cardinality(1..k)
    BY DEF Cardinality, Logins!Cardinality
  <2>3. QED
    BY <2>1, <2>2 DEF Logins!CountAddress
<1>8. /\ counted' \in [1..(k + 1) -> Nat]
      /\ Cardinality(CountedNow') = Cardinality(CountedNow) + 1
      /\ Cardinality(Recent) <= Cardinality(Recent') /\ Cardinality(Recent') \in Nat
      /\ t <= now + Minute => Cardinality(Within(t)') = Cardinality(Within(t)) + 1
  BY <1>1, <1>4, <1>6, <1>7, OneMoreCounted
<1>9. /\ attempt' \in [Attempts -> Try] /\ attempt'[a] = r
      /\ \A b \in Attempts : b # a => attempt'[b] = attempt[b]
  BY <1>1, <1>4, <1>5
<1>10. address' \in Key /\ address'.n = m /\ address'.until = t /\ address.n = n /\ address.until = t
  BY <1>2, <1>4 DEF Key
<1>11. LoginType'
  <2>1. k + 1 \in Nat
    OBVIOUS
  <2>2. QED
    BY <1>1, <1>4, <1>8, <1>9, <1>10, <2>1 DEF LoginType
<1>12. AddressInv'
  <2> SUFFICES ASSUME limiterFaults = 0 PROVE AddressInv'
    BY <1>4 DEF AddressInv
  <2>1. AddressInv /\ /\ Cardinality(CountedNow) \in Nat /\ Cardinality(Within(t)) \in Nat
                      /\ Cardinality(Recent) \in Nat /\ PerMinute \in Nat /\ now \in Nat
                      /\ Minute \in Nat
    BY <1>1, CountsFinite, LimiterTimes DEF LoginInv, LoginType
  <2>2. ~GivesFirst(attempt[a])
    BY <1>4 DEF GivesFirst
  <2>3. \A b \in Attempts : b # a => (GivesFirst(attempt[b])' <=> GivesFirst(attempt[b]))
    BY <1>9 DEF GivesFirst
  <2>4. GivesFirst(attempt[a])' <=> n = 0
    BY <1>3, <1>5, <1>9 DEF GivesFirst
  <2>5. \A b \in Attempts : attempt'[b].stage = "expire" =>
          attempt'[b].count > 0 /\ attempt'[b].count <= m
    <3>1. ASSUME NEW b \in Attempts, attempt'[b].stage = "expire"
          PROVE  attempt'[b].count > 0 /\ attempt'[b].count <= m
      <4>1. CASE b = a
        BY <1>3, <1>5, <1>9, <4>1
      <4>2. CASE b # a
        <5>1. attempt[b].count > 0 /\ attempt[b].count <= n /\ attempt[b].count \in Nat
          BY <1>1, <1>9, <1>10, <2>1, <3>1, <4>2 DEF AddressInv, Try
        <5>2. QED
          BY <1>3, <1>9, <4>2, <5>1
      <4>3. QED
        BY <4>1, <4>2
    <3>2. QED
      BY <3>1
  <2>6. \A b \in Attempts : attempt'[b].refused = "address" => Cardinality(Recent') > PerMinute
    <3>1. Cardinality(Recent') \in Nat
      BY <1>8
    <3>2. ASSUME NEW b \in Attempts, attempt'[b].refused = "address"
          PROVE  Cardinality(Recent') > PerMinute
      <4>1. b # a /\ attempt[b].refused = "address"
        BY <1>5, <1>9, <3>2
      <4>2. QED
        BY <1>8, <2>1, <3>1, <4>1 DEF AddressInv
    <3>3. QED
      BY <3>2
  <2>7. CASE n = 0
    <3>1. \A b \in Attempts : ~GivesFirst(attempt[b])
      BY <1>10, <2>1, <2>7 DEF AddressInv
    <3>2. QED
      BY <1>3, <1>4, <1>8, <1>10, <2>1, <2>3, <2>4, <2>5, <2>6, <2>7, <3>1 DEF AddressInv
  <2>8. CASE n # 0
    <3>1. \A b \in Attempts : GivesFirst(attempt[b])' <=> GivesFirst(attempt[b])
      BY <2>2, <2>3, <2>4, <2>8
    <3>2. (\E b \in Attempts : GivesFirst(attempt[b])) => n <= Cardinality(CountedNow)
      BY <1>10, <2>1 DEF AddressInv
    <3>3. (\A b \in Attempts : ~GivesFirst(attempt[b])) =>
            now < t /\ t <= now + Minute /\ n <= Cardinality(Within(t))
      BY <1>10, <2>1, <2>8 DEF AddressInv
    <3>4. \A b, c \in Attempts : GivesFirst(attempt[b])' /\ GivesFirst(attempt[c])' => b = c
      BY <2>1, <3>1 DEF AddressInv
    <3>5. (\E b \in Attempts : GivesFirst(attempt[b])') => m > 0 /\ m <= Cardinality(CountedNow')
      BY <1>3, <1>8, <2>1, <3>1, <3>2
    <3>6. (\A b \in Attempts : ~GivesFirst(attempt[b])') =>
            now < t /\ t <= now + Minute /\ m <= Cardinality(Within(t)')
      BY <1>3, <1>8, <2>1, <3>1, <3>3
    <3>7. QED
      BY <1>4, <1>10, <2>5, <2>6, <3>4, <3>5, <3>6 DEF AddressInv
  <2>9. QED
    BY <2>7, <2>8
<1>13. LockInv' /\ FailureInv'
  BY <1>4, <1>5, <1>9, FailuresStay DEF LoginInv, Failing
<1>14. QED
  BY <1>11, <1>12, <1>13 DEF LoginInv

LEMMA ExpiryStep ==
  ASSUME LoginInv, NEW a \in Attempts, Logins!ExpireAddress(a)
  PROVE  LoginInv'
<1>1. /\ LoginType /\ address \in Key /\ attempt[a] \in Try /\ attempt \in [Attempts -> Try]
      /\ limiterFaults \in Nat /\ now \in Nat /\ Minute \in Nat /\ Minute > 0 /\ PerMinute \in Nat
  BY LimiterTimes DEF LoginInv, LoginType
<1>2. PICK c \in Nat : c = attempt[a].count
  BY <1>1 DEF Try
<1>3. PICK r \in Try : /\ attempt' = [attempt EXCEPT ![a] = r]
                       /\ r.stage \in {"idle", "locked?"}
                       /\ r.refused = "address" => attempt[a].refused = "address" \/ c > PerMinute
  <2>1. CASE c > PerMinute
    <3>1. PICK r \in Try : r = [Logins!Idle EXCEPT !.refused = "address"]
      BY DEF Logins!Idle, Try
    <3>2. r.stage = "idle"
      BY <3>1 DEF Logins!Idle
    <3>3. QED
      BY <1>2, <2>1, <3>1, <3>2 DEF Logins!ExpireAddress
  <2>2. CASE ~(c > PerMinute)
    <3>1. PICK o \in Try : o = attempt[a]
      BY <1>1
    <3>2. PICK r \in Try : r = [o EXCEPT !.stage = "locked?"]
      BY DEF Try
    <3>3. r.stage = "locked?" /\ r.refused = o.refused
      BY <3>2 DEF Try
    <3>4. attempt' = [attempt EXCEPT ![a] = r]
      BY <1>1, <1>2, <2>2, <3>1, <3>2 DEF Logins!ExpireAddress, Logins!To
    <3>5. QED
      BY <3>1, <3>3, <3>4
  <2>3. QED
    BY <2>1, <2>2
<1>4. /\ attempt[a].stage = "expire" /\ UNCHANGED <<now, failures, lock, counted, inARow, overtaken>>
  BY DEF Logins!ExpireAddress, Logins!At
<1>5. PICK n \in Nat, t \in Nat : address = [n |-> n, until |-> t] /\ address.n = n /\ address.until = t
  BY <1>1 DEF Key
<1>6. \/ address' = IF c = 1 /\ n # 0 THEN [n |-> n, until |-> now + Minute] ELSE address
      \/ address' = address /\ limiterFaults' = limiterFaults + 1
  <2>1. Logins!Expire(address, Minute) = IF n = 0 THEN address ELSE [n |-> n, until |-> now + Minute]
    BY <1>5 DEF Logins!Expire
  <2>2. QED
    BY <1>2, <2>1 DEF Logins!ExpireAddress, Logins!GivesExpiry
<1>7. address' \in Key /\ address'.n = n
  BY <1>1, <1>5, <1>6 DEF Key
<1>8. /\ attempt' \in [Attempts -> Try] /\ attempt'[a] = r
      /\ \A b \in Attempts : b # a => attempt'[b] = attempt[b]
  BY <1>1, <1>3
<1>9. limiterFaults' = limiterFaults \/ limiterFaults' = limiterFaults + 1
  BY DEF Logins!ExpireAddress
<1>10. LoginType'
  <2>1. limiterFaults' \in Nat
    BY <1>1, <1>9
  <2>2. QED
    BY <1>4, <1>7, <1>8, <2>1 DEF LoginInv, LoginType
<1>11. AddressInv'
  <2> SUFFICES ASSUME limiterFaults' = 0 PROVE AddressInv'
    BY DEF AddressInv
  <2>1. limiterFaults = 0
        /\ address' = IF c = 1 /\ n # 0 THEN [n |-> n, until |-> now + Minute] ELSE address
    BY <1>1, <1>6, <1>9
  <2>2. /\ Cardinality(CountedNow) \in Nat /\ Cardinality(Within(t)) \in Nat
        /\ Cardinality(Recent) \in Nat
        /\ Cardinality(CountedNow) <= Cardinality(Recent)
        /\ Cardinality(CountedNow) <= Cardinality(Within(now + Minute))
        /\ now < t => Cardinality(Within(t)) <= Cardinality(Recent)
    BY <1>1, CountsFinite
  <2>3. Cardinality(Within(now + Minute)) \in Nat
    BY <1>1, CountsFinite
  <2>4. AddressInv /\ CountedNow' = CountedNow /\ Recent' = Recent /\ n > 0 /\ c > 0 /\ c <= n
    BY <1>2, <1>4, <1>5, <2>1 DEF LoginInv, AddressInv, CountedNow, Recent, Counts
  <2>5. n <= Cardinality(Recent)
    <3>1. CASE \E b \in Attempts : GivesFirst(attempt[b])
      BY <1>5, <2>1, <2>2, <2>4, <3>1 DEF AddressInv
    <3>2. CASE \A b \in Attempts : ~GivesFirst(attempt[b])
      BY <1>5, <2>1, <2>2, <2>4, <3>2 DEF AddressInv
    <3>3. QED
      BY <3>1, <3>2
  <2>6. \A b \in Attempts : attempt'[b].refused = "address" => Cardinality(Recent') > PerMinute
    BY <1>1, <1>3, <1>8, <2>1, <2>2, <2>4, <2>5 DEF AddressInv
  <2>7. ~GivesFirst(attempt[a])'
    BY <1>3, <1>8 DEF GivesFirst
  <2>8. \A b \in Attempts : b # a => (GivesFirst(attempt[b])' <=> GivesFirst(attempt[b]))
    BY <1>8 DEF GivesFirst
  <2>9. \A b \in Attempts : attempt'[b].stage = "expire" =>
          attempt'[b].count > 0 /\ attempt'[b].count <= address'.n
    BY <1>3, <1>5, <1>7, <1>8, <2>1, <2>4 DEF AddressInv
  <2>10. CASE c = 1
    <3>1. GivesFirst(attempt[a])
      BY <1>2, <1>4, <2>10 DEF GivesFirst
    <3>2. \A b \in Attempts : ~GivesFirst(attempt[b])'
      BY <2>1, <2>4, <2>7, <2>8, <3>1 DEF AddressInv
    <3>3. PICK u \in Nat : u = now + Minute
      BY <1>1
    <3>4. address'.until = u /\ n <= Cardinality(Within(u))
      BY <1>5, <2>1, <2>2, <2>3, <2>4, <2>10, <3>1, <3>3 DEF AddressInv
    <3>5. Within(u)' = Within(u)
      BY <1>4 DEF Within, Counts
    <3>6. QED
      BY <1>1, <1>4, <1>7, <2>6, <2>9, <3>2, <3>3, <3>4, <3>5 DEF AddressInv
  <2>11. CASE c # 1
    <3>1. ~GivesFirst(attempt[a]) /\ address' = address
      BY <1>2, <2>1, <2>11 DEF GivesFirst
    <3>2. \A b \in Attempts : GivesFirst(attempt[b])' <=> GivesFirst(attempt[b])
      BY <2>7, <2>8, <3>1
    <3>3. Within(address.until)' = Within(address.until)
      BY <1>4, <3>1 DEF Within, Counts
    <3>4. QED
      BY <1>4, <2>1, <2>4, <2>6, <2>9, <3>1, <3>2, <3>3 DEF AddressInv
  <2>12. QED
    BY <2>10, <2>11
<1>12. LockInv' /\ FailureInv'
  BY <1>3, <1>4, <1>8, FailuresStay DEF LoginInv, Failing
<1>13. QED
  BY <1>10, <1>11, <1>12 DEF LoginInv

\* A request that is let in, sent away or ends without a failure.
LEMMA EntryStep ==
  ASSUME LoginInv, NEW a \in Attempts, Logins!CheckLock(a) \/ Logins!Disabled(a)
  PROVE  LoginInv'
<1>1. attempt[a] \in Try /\ attempt \in [Attempts -> Try]
  BY DEF LoginInv, LoginType
<1>2. /\ UNCHANGED <<now, address, failures, lock, counted, inARow, overtaken, limiterFaults>>
      /\ attempt[a].stage \in {"locked?", "verify"}
  BY DEF Logins!CheckLock, Logins!Disabled, Logins!At
<1>3. PICK o \in Try : o = attempt[a]
  BY <1>1
<1>4. PICK r \in Try : /\ attempt' = [attempt EXCEPT ![a] = r] /\ r.stage \in {"idle", "verify"}
                       /\ r.refused = "address" => o.refused = "address"
  <2>1. Logins!Idle \in Try /\ Logins!Idle.stage = "idle" /\ Logins!Idle.refused = "no"
    BY DEF Logins!Idle, Try
  <2>2. /\ [Logins!Idle EXCEPT !.refused = "account"] \in Try
        /\ [Logins!Idle EXCEPT !.refused = "account"].stage = "idle"
        /\ [Logins!Idle EXCEPT !.refused = "account"].refused = "account"
    BY DEF Logins!Idle, Try
  <2>3. /\ [o EXCEPT !.stage = "verify"] \in Try
        /\ [o EXCEPT !.stage = "verify"].stage = "verify"
        /\ [o EXCEPT !.stage = "verify"].refused = o.refused
    BY DEF Try
  <2>4. \/ attempt' = [attempt EXCEPT ![a] = Logins!Idle]
        \/ attempt' = [attempt EXCEPT ![a] = [Logins!Idle EXCEPT !.refused = "account"]]
        \/ attempt' = [attempt EXCEPT ![a] = [o EXCEPT !.stage = "verify"]]
    BY <1>1, <1>3 DEF Logins!CheckLock, Logins!Disabled, Logins!To
  <2>5. QED
    BY <2>1, <2>2, <2>3, <2>4
<1>5. /\ attempt' \in [Attempts -> Try] /\ attempt'[a] = r
      /\ \A b \in Attempts : b # a => attempt'[b] = attempt[b]
  BY <1>1, <1>4
<1>6. LoginType'
  BY <1>2, <1>5 DEF LoginInv, LoginType
<1>7. AddressInv'
  BY <1>2, <1>3, <1>4, <1>5, AddressStays DEF LoginInv
<1>8. LockInv' /\ FailureInv'
  BY <1>2, <1>4, <1>5, FailuresStay DEF LoginInv, Failing
<1>9. QED
  BY <1>6, <1>7, <1>8 DEF LoginInv

LEMMA AbsentKey == Logins!Absent \in Key /\ Logins!Absent.n = 0
<1>1. Logins!Never \in Nat
  BY LimiterTimes DEF Logins!Never
<1>2. QED
  BY <1>1 DEF Logins!Absent, Key

LEMMA SuccessStep ==
  ASSUME LoginInv, NEW a \in Attempts, Logins!Succeed(a)
  PROVE  LoginInv'
<1>1. attempt \in [Attempts -> Try]
  BY DEF LoginInv, LoginType
<1>2. /\ failures' = Logins!Absent /\ lock' = Logins!Absent /\ inARow' = 0 /\ overtaken' = FALSE
      /\ attempt[a].stage = "verify" /\ UNCHANGED <<now, address, counted, limiterFaults>>
  BY DEF Logins!Succeed, Logins!Cleared, Logins!At
<1>3. Logins!Idle \in Try /\ Logins!Idle.stage = "idle" /\ Logins!Idle.refused = "no"
  BY DEF Logins!Idle, Try
<1>4. \A b \in Attempts :
        /\ attempt'[b] \in Try
        /\ \/ attempt'[b] = attempt[b]
           \/ /\ attempt[b].stage # "expire" /\ attempt'[b].stage # "expire"
              /\ attempt'[b].refused = "address" => attempt[b].refused = "address"
        /\ Failing(attempt'[b]) => attempt'[b].stale
  <2>1. ASSUME NEW b \in Attempts, NEW o \in Try, o = attempt[b]
        PROVE  /\ attempt'[b] \in Try
               /\ \/ attempt'[b] = o
                  \/ /\ o.stage # "expire" /\ attempt'[b].stage # "expire"
                     /\ attempt'[b].refused = "address" => o.refused = "address"
               /\ Failing(attempt'[b]) => attempt'[b].stale
    <3>1. CASE b = a
      BY <1>2, <1>3, <2>1, <3>1 DEF Logins!Succeed, Failing
    <3>2. CASE b # a /\ o.stage \in {"expireFail", "lock"}
      <4>1. attempt'[b] = [o EXCEPT !.stale = TRUE]
        BY <2>1, <3>2 DEF Logins!Succeed
      <4>2. QED
        BY <3>2, <4>1 DEF Try
    <3>3. CASE b # a /\ o.stage \notin {"expireFail", "lock"}
      <4>1. attempt'[b] = o
        BY <2>1, <3>3 DEF Logins!Succeed
      <4>2. QED
        BY <3>3, <4>1 DEF Failing
    <3>4. QED
      BY <3>1, <3>2, <3>3
  <2>2. QED
    BY <1>1, <2>1
<1>5. attempt' \in [Attempts -> Try]
  <2>1. attempt' = [b \in Attempts |-> attempt'[b]]
    BY DEF Logins!Succeed
  <2>2. QED
    BY <1>4, <2>1
<1>6. LoginType'
  BY <1>2, <1>5, AbsentKey DEF LoginInv, LoginType
<1>7. AddressInv'
  BY <1>2, <1>4, AddressStays DEF LoginInv
<1>8. LockInv' /\ FailureInv'
  BY <1>2, <1>4, AbsentKey, LimiterTimes DEF LockInv, FailureInv
<1>9. QED
  BY <1>6, <1>7, <1>8 DEF LoginInv

LEMMA FailStep ==
  ASSUME LoginInv, NEW a \in Attempts, Logins!Fail(a)
  PROVE  LoginInv'
<1>1. /\ attempt[a] \in Try /\ attempt \in [Attempts -> Try] /\ failures \in Key /\ inARow \in Nat
      /\ lock \in Key /\ now \in Nat /\ Enough \in Nat /\ Quarter \in Nat
  BY LimiterTimes DEF LoginInv, LoginType
<1>2. PICK n \in Nat, t \in Nat :
        failures = [n |-> n, until |-> t] /\ failures.n = n /\ failures.until = t
  BY <1>1 DEF Key
<1>3. PICK m \in Nat : m = n + 1
  OBVIOUS
<1>4. PICK o \in Try : o = attempt[a]
  BY <1>1
<1>5. PICK r \in Try : /\ r = [o EXCEPT !.stage = "expireFail", !.count = m]
                       /\ r.stage = "expireFail" /\ r.count = m /\ r.refused = o.refused
  <2>1. PICK r \in Try : r = [o EXCEPT !.stage = "expireFail", !.count = m]
    BY DEF Try
  <2>2. r.stage = "expireFail" /\ r.count = m /\ r.refused = o.refused
    BY <2>1, TryFields
  <2>3. QED
    BY <2>1, <2>2
<1>6. /\ o.stage = "verify" /\ attempt' = [attempt EXCEPT ![a] = r]
      /\ failures' = [n |-> m, until |-> t] /\ inARow' = inARow + 1
      /\ UNCHANGED <<now, address, lock, counted, overtaken, limiterFaults>>
  BY <1>1, <1>2, <1>3, <1>4, <1>5 DEF Logins!Fail, Logins!At, Logins!Incr
<1>7. failures' \in Key /\ failures'.n = m /\ failures'.until = t
  BY <1>6 DEF Key
<1>8. /\ attempt' \in [Attempts -> Try] /\ attempt'[a] = r
      /\ \A b \in Attempts : b # a => attempt'[b] = attempt[b]
  BY <1>1, <1>6
<1>9. LoginType'
  <2>1. inARow' \in Nat
    BY <1>1, <1>6
  <2>2. QED
    BY <1>6, <1>7, <1>8, <2>1 DEF LoginInv, LoginType
<1>10. AddressInv'
  BY <1>4, <1>5, <1>6, <1>8, AddressStays DEF LoginInv
<1>11. LockInv'
  <2>1. m >= Enough => /\ \E b \in Attempts : attempt'[b].stage = "expireFail" /\ attempt'[b].count >= Enough
                       /\ OnItsWayToLock'
    BY <1>5, <1>8 DEF OnItsWayToLock, Failing
  <2>2. QED
    BY <1>7, <2>1 DEF LockInv
<1>12. FailureInv'
  <2>1. FailureInv /\ m = inARow'
    BY <1>2, <1>3, <1>6 DEF LoginInv, FailureInv
  <2>2. ASSUME NEW b \in Attempts, Failing(attempt'[b]), ~attempt'[b].stale
        PROVE  /\ attempt'[b].count > 0 /\ attempt'[b].count <= m
               /\ attempt'[b].stage = "lock" => now + Quarter <= t
    <3>1. CASE b = a
      <4>1. attempt'[b] = r /\ m > 0 /\ m <= m
        BY <1>3, <1>8, <3>1
      <4>2. QED
        BY <1>5, <4>1
    <3>2. CASE b # a
      <4>1. attempt'[b] = attempt[b] /\ attempt[b].count \in Nat
        BY <1>1, <1>8, <3>2 DEF Try
      <4>2. /\ attempt[b].count > 0 /\ attempt[b].count <= n
            /\ attempt[b].stage = "lock" => now + Quarter <= t
        BY <1>2, <2>1, <2>2, <4>1 DEF FailureInv
      <4>3. QED
        BY <1>3, <4>1, <4>2
    <3>3. QED
      BY <3>1, <3>2
  <2>3. lock.n > 0 /\ ~overtaken => inARow' >= Enough /\ lock.until <= t
    BY <1>1, <1>2, <1>6, <2>1 DEF FailureInv
  <2>4. lock.n > 0 => lock.until <= now + Quarter
    BY <2>1 DEF FailureInv
  <2>5. QED
    BY <1>6, <1>7, <2>1, <2>2, <2>3, <2>4 DEF FailureInv
<1>13. QED
  BY <1>9, <1>10, <1>11, <1>12 DEF LoginInv

LEMMA FailExpiryStep ==
  ASSUME LoginInv, NEW a \in Attempts, Logins!ExpireFail(a)
  PROVE  LoginInv'
<1>1. /\ attempt[a] \in Try /\ attempt \in [Attempts -> Try] /\ failures \in Key /\ inARow \in Nat
      /\ lock \in Key /\ now \in Nat /\ Enough \in Nat /\ Quarter \in Nat /\ Enough > 0
  BY LimiterTimes DEF LoginInv, LoginType
<1>2. PICK n \in Nat, t \in Nat :
        failures = [n |-> n, until |-> t] /\ failures.n = n /\ failures.until = t
  BY <1>1 DEF Key
<1>3. PICK o \in Try : o = attempt[a]
  BY <1>1
<1>4. PICK r \in Try : /\ r = [o EXCEPT !.stage = "lock"]
                       /\ r.stage = "lock" /\ r.count = o.count /\ r.refused = o.refused
                       /\ r.stale = o.stale
  <2>1. PICK r \in Try : r = [o EXCEPT !.stage = "lock"]
    BY DEF Try
  <2>2. r.stage = "lock" /\ r.count = o.count /\ r.refused = o.refused /\ r.stale = o.stale
    BY <2>1, TryFields
  <2>3. QED
    BY <2>1, <2>2
<1>5. PICK q \in Nat : q = now + Quarter
  BY <1>1
<1>6. /\ o.stage = "expireFail" /\ attempt' = [attempt EXCEPT ![a] = r]
      /\ failures' = IF n = 0 THEN failures ELSE [n |-> n, until |-> q]
      /\ UNCHANGED <<now, address, lock, counted, inARow, overtaken, limiterFaults>>
  BY <1>1, <1>2, <1>3, <1>4, <1>5
     DEF Logins!ExpireFail, Logins!At, Logins!To, Logins!Expire
<1>7. failures' \in Key /\ failures'.n = n /\ (n > 0 => failures'.until = q)
      /\ (n = 0 => failures'.until = t)
  BY <1>1, <1>2, <1>6 DEF Key
<1>8. /\ attempt' \in [Attempts -> Try] /\ attempt'[a] = r
      /\ \A b \in Attempts : b # a => attempt'[b] = attempt[b]
  BY <1>1, <1>6
<1>9. LoginType'
  BY <1>6, <1>7, <1>8 DEF LoginInv, LoginType
<1>10. AddressInv'
  BY <1>3, <1>4, <1>6, <1>8, AddressStays DEF LoginInv
<1>11. LockInv'
  <2>1. ASSUME n >= Enough PROVE OnItsWayToLock' \/ (lock.n > 0 /\ q <= lock.until)
    <3>1. n > 0
      BY <1>1, <2>1
    <3>2. CASE OnItsWayToLock
      BY <1>3, <1>4, <1>6, <1>8, <3>2 DEF OnItsWayToLock, Failing
    <3>3. CASE ~OnItsWayToLock
      BY <1>2, <1>3, <1>5, <1>6, <2>1, <3>3 DEF LoginInv, LockInv
    <3>4. QED
      BY <3>2, <3>3
  <2>2. n >= Enough => n > 0
    BY <1>1
  <2>3. QED
    BY <1>5, <1>6, <1>7, <2>1, <2>2 DEF LockInv
<1>12. FailureInv'
  <2>1. FailureInv
    BY DEF LoginInv
  <2>2. ASSUME NEW b \in Attempts, Failing(attempt'[b]), ~attempt'[b].stale
        PROVE  /\ attempt'[b].count > 0 /\ attempt'[b].count <= n /\ q <= failures'.until
    <3>1. Failing(attempt[b]) /\ ~attempt[b].stale /\ attempt'[b].count = attempt[b].count
      BY <1>3, <1>4, <1>6, <1>8, <2>2 DEF Failing
    <3>2. attempt[b].count > 0 /\ attempt[b].count <= n /\ attempt[b].count \in Nat
      BY <1>1, <1>2, <2>1, <3>1 DEF FailureInv, Try
    <3>3. n > 0
      BY <3>2
    <3>4. QED
      BY <1>7, <3>1, <3>2, <3>3
  <2>3. lock.n > 0 => lock.until <= q /\ lock.until \in Nat
    BY <1>1, <1>5, <2>1 DEF FailureInv, Key
  <2>4. lock.n > 0 /\ ~overtaken => inARow >= Enough /\ lock.until <= failures'.until
    <3>1. lock.n > 0 /\ ~overtaken => inARow >= Enough /\ n >= Enough
      BY <1>2, <2>1 DEF FailureInv
    <3>2. n >= Enough => n > 0
      BY <1>1
    <3>3. QED
      BY <1>7, <2>3, <3>1, <3>2
  <2>5. n = inARow
    BY <1>2, <2>1 DEF FailureInv
  <2>6. QED
    BY <1>5, <1>6, <1>7, <2>2, <2>3, <2>4, <2>5 DEF FailureInv
<1>13. QED
  BY <1>9, <1>10, <1>11, <1>12 DEF LoginInv

LEMMA LockStep ==
  ASSUME LoginInv, NEW a \in Attempts, Logins!Lock(a)
  PROVE  LoginInv'
<1>1. /\ attempt[a] \in Try /\ attempt \in [Attempts -> Try] /\ failures \in Key /\ inARow \in Nat
      /\ lock \in Key /\ now \in Nat /\ Enough \in Nat /\ Quarter \in Nat
  BY LimiterTimes DEF LoginInv, LoginType
<1>2. PICK o \in Try, c \in Nat : o = attempt[a] /\ c = o.count
  <2>1. PICK o \in Try : o = attempt[a]
    BY <1>1
  <2>2. PICK c \in Nat : c = o.count
    BY TryFields
  <2>3. QED
    BY <2>1, <2>2
<1>3. PICK r \in Try : r = Logins!Idle /\ r.stage = "idle" /\ r.refused = "no"
  BY IdleTry
<1>4. PICK q \in Nat : q = now + Quarter
  BY <1>1
<1>5. /\ o.stage = "lock" /\ attempt' = [attempt EXCEPT ![a] = r]
      /\ UNCHANGED <<now, address, failures, counted, inARow, limiterFaults>>
      /\ \/ c >= Enough /\ lock' = [n |-> 1, until |-> q] /\ overtaken' = o.stale
         \/ ~(c >= Enough) /\ UNCHANGED <<lock, overtaken>>
  BY <1>1, <1>2, <1>3, <1>4 DEF Logins!Lock, Logins!At, Logins!Locks
<1>6. /\ attempt' \in [Attempts -> Try] /\ attempt'[a] = r
      /\ \A b \in Attempts : b # a => attempt'[b] = attempt[b]
  BY <1>1, <1>5
<1>7. \A b \in Attempts : Failing(attempt'[b]) => b # a /\ attempt'[b] = attempt[b]
  BY <1>3, <1>6 DEF Failing
<1>8. AddressInv'
  BY <1>2, <1>3, <1>5, <1>6, AddressStays DEF LoginInv
<1>9. CASE c >= Enough /\ lock' = [n |-> 1, until |-> q] /\ overtaken' = o.stale
  <2>1. lock' \in Key /\ lock'.n = 1 /\ lock'.until = q /\ overtaken' \in BOOLEAN
    BY <1>9 DEF Key, Try
  <2>2. LoginType'
    BY <1>5, <1>6, <2>1 DEF LoginInv, LoginType
  <2>3. LockInv'
    <3>1. ASSUME failures.n >= Enough,
                 NEW b \in Attempts, attempt[b].stage = "expireFail", attempt[b].count >= Enough
          PROVE  LockInv'
      <4>1. attempt'[b] = attempt[b]
        BY <1>2, <1>5, <1>6, <3>1
      <4>2. OnItsWayToLock'
        BY <3>1, <4>1 DEF OnItsWayToLock, Failing
      <4>3. QED
        BY <3>1, <4>1, <4>2 DEF LockInv
    <3>2. CASE failures.until <= now + Quarter
      BY <1>4, <1>5, <2>1, <3>2 DEF LockInv
    <3>3. QED
      BY <1>5, <3>1, <3>2 DEF LoginInv, LockInv
  <2>4. FailureInv'
    <3>1. FailureInv
      BY DEF LoginInv
    <3>2. ~o.stale => inARow >= Enough /\ q <= failures.until
      <4>1. ASSUME ~o.stale PROVE c <= failures.n /\ q <= failures.until /\ failures.n = inARow
        BY <1>2, <1>4, <1>5, <3>1, <4>1 DEF FailureInv, Failing
      <4>2. QED
        BY <1>1, <1>9, <4>1
    <3>3. \A b \in Attempts : Failing(attempt'[b]) /\ ~attempt'[b].stale =>
       /\ attempt'[b].count > 0 /\ attempt'[b].count <= failures'.n
       /\ attempt'[b].stage = "lock" => now' + Quarter <= failures'.until
      BY <1>5, <1>7, <3>1 DEF FailureInv
    <3>4. QED
      BY <1>4, <1>5, <1>9, <2>1, <3>1, <3>2, <3>3 DEF FailureInv
  <2>5. QED
    BY <1>8, <2>2, <2>3, <2>4 DEF LoginInv
<1>10. CASE ~(c >= Enough) /\ UNCHANGED <<lock, overtaken>>
  <2>1. LoginType'
    BY <1>5, <1>6, <1>10 DEF LoginInv, LoginType
  <2>2. \A b \in Attempts : Failing(attempt[b]) /\ attempt[b].count >= Enough => attempt'[b] = attempt[b]
    BY <1>2, <1>6, <1>10
  <2>3. LockInv'
    <3>1. OnItsWayToLock => OnItsWayToLock'
      BY <2>2 DEF OnItsWayToLock
    <3>2. (\E b \in Attempts : attempt[b].stage = "expireFail" /\ attempt[b].count >= Enough) =>
            \E b \in Attempts : attempt'[b].stage = "expireFail" /\ attempt'[b].count >= Enough
      BY <2>2 DEF Failing
    <3>3. (\E b \in Attempts : attempt'[b].stage = "expireFail") =>
            \E b \in Attempts : attempt[b].stage = "expireFail"
      BY <1>7 DEF Failing
    <3>4. QED
      BY <1>5, <1>10, <3>1, <3>2, <3>3 DEF LoginInv, LockInv
  <2>4. FailureInv'
    BY <1>5, <1>7, <1>10 DEF LoginInv, FailureInv
  <2>5. QED
    BY <1>8, <2>1, <2>3, <2>4 DEF LoginInv
<1>11. QED
  BY <1>5, <1>9, <1>10

LEMMA MinuteStep ==
  ASSUME LoginInv, Logins!Tick
  PROVE  LoginInv'
<1>1. /\ attempt \in [Attempts -> Try] /\ failures \in Key /\ inARow \in Nat
      /\ address \in Key /\ lock \in Key /\ now \in Nat
      /\ Enough \in Nat /\ Enough > 0 /\ Quarter \in Nat /\ Minute \in Nat
  BY LimiterTimes DEF LoginInv, LoginType
<1>2. /\ now' = now + 1 /\ UNCHANGED <<counted, overtaken, limiterFaults>>
      /\ \A a \in Attempts : attempt[a].stage \in {"idle", "verify"}
      /\ address' = IF address.until <= now + 1 THEN Logins!Absent ELSE address
      /\ failures' = IF failures.until <= now + 1 THEN Logins!Absent ELSE failures
      /\ lock' = IF lock.until <= now + 1 THEN Logins!Absent ELSE lock
      /\ inARow' = IF failures'.n = 0 THEN 0 ELSE inARow
      /\ attempt' = [a \in Attempts |-> [attempt[a] EXCEPT !.refused = "no"]]
  BY DEF Logins!Tick
<1>3. \A a \in Attempts : /\ attempt'[a] \in Try /\ attempt'[a].stage \in {"idle", "verify"}
                          /\ attempt'[a].refused = "no"
  <2>1. ASSUME NEW a \in Attempts, NEW o \in Try, o = attempt[a]
        PROVE  /\ attempt'[a] \in Try /\ attempt'[a].stage \in {"idle", "verify"}
               /\ attempt'[a].refused = "no"
    <3>1. attempt'[a] = [o EXCEPT !.refused = "no"] /\ o.stage \in {"idle", "verify"}
      BY <1>2, <2>1
    <3>2. QED
      BY <3>1 DEF Try
  <2>2. QED
    BY <1>1, <2>1
<1>4. \A a \in Attempts : /\ ~GivesFirst(attempt'[a]) /\ ~GivesFirst(attempt[a])
                          /\ ~Failing(attempt'[a]) /\ ~Failing(attempt[a])
                          /\ attempt'[a].stage # "expire" /\ attempt'[a].stage # "expireFail"
                          /\ attempt[a].stage # "expireFail"
  BY <1>2, <1>3 DEF GivesFirst, Failing
<1>5. LoginType'
  <2>1. attempt' \in [Attempts -> Try]
    BY <1>2, <1>3
  <2>2. now' \in Nat /\ inARow' \in Nat
    BY <1>1, <1>2
  <2>3. QED
    BY <1>1, <1>2, <2>1, <2>2, AbsentKey DEF LoginInv, LoginType
<1>6. address.until \in Nat /\ failures.until \in Nat /\ lock.until \in Nat
  BY <1>1 DEF Key
<1>7. AddressInv'
  <2> SUFFICES ASSUME limiterFaults = 0, address'.n > 0 PROVE /\ now' < address'.until
               /\ address'.until <= now' + Minute
               /\ address'.n <= Cardinality(Within(address.until)')
    BY <1>2, <1>3, <1>4 DEF AddressInv
  <2>1. address' = address /\ now + 1 < address.until
    BY <1>1, <1>2, <1>6, AbsentKey
  <2>2. address.until <= now + Minute /\ address.n <= Cardinality(Within(address.until))
    BY <1>4, <2>1 DEF LoginInv, AddressInv
  <2>3. Within(address.until)' = Within(address.until)
    BY <1>2, <2>1 DEF Within, Counts
  <2>4. QED
    BY <1>1, <1>2, <1>6, <2>1, <2>2, <2>3
<1>8. failures'.n > 0 => failures' = failures /\ now + 1 < failures.until
  BY <1>1, <1>2, <1>6, AbsentKey
<1>9. lock'.n > 0 => lock' = lock /\ now + 1 < lock.until
  BY <1>1, <1>2, <1>6, AbsentKey
<1>10. LockInv'
  <2> SUFFICES ASSUME failures'.n >= Enough
               PROVE  failures'.until <= now' + Quarter /\ lock'.n > 0 /\ failures'.until <= lock'.until
    BY <1>4 DEF LockInv
  <2>1. failures'.n > 0
    BY <1>1, <1>5 DEF LoginType, Key
  <2>2. failures' = failures /\ now + 1 < failures.until
    BY <1>8, <2>1
  <2>3. failures.until <= now + Quarter /\ lock.n > 0 /\ failures.until <= lock.until
    BY <1>4, <2>2 DEF LoginInv, LockInv, OnItsWayToLock
  <2>4. lock' = lock
    BY <1>1, <1>2, <1>6, <2>2, <2>3
  <2>5. QED
    BY <1>1, <1>2, <1>6, <2>2, <2>3, <2>4
<1>11. FailureInv'
  <2>1. FailureInv
    BY DEF LoginInv
  <2>2. failures'.n = inARow'
    <3>1. CASE failures'.n = 0
      BY <1>2, <3>1
    <3>2. CASE failures'.n # 0
      <4>1. failures'.n > 0
        BY <1>5, <3>2 DEF LoginType, Key
      <4>2. QED
        BY <1>2, <1>8, <2>1, <3>2, <4>1 DEF FailureInv
    <3>3. QED
      BY <3>1, <3>2
  <2>3. lock'.n > 0 => lock'.until <= now' + Quarter
    <3>1. lock.n > 0 => lock.until <= now + Quarter
      BY <2>1 DEF FailureInv
    <3>2. QED
      BY <1>1, <1>2, <1>6, <1>9, <3>1
  <2>4. ASSUME lock'.n > 0, ~overtaken PROVE inARow' >= Enough /\ lock'.until <= failures'.until
    <3>1. lock' = lock /\ now + 1 < lock.until
      BY <1>9, <2>4
    <3>2. inARow >= Enough /\ lock.until <= failures.until
      BY <2>1, <2>4, <3>1 DEF FailureInv
    <3>3. failures' = failures
      BY <1>1, <1>2, <1>6, <3>1, <3>2
    <3>4. failures.n # 0
      BY <1>1, <2>1, <3>2 DEF FailureInv
    <3>5. QED
      BY <1>2, <3>1, <3>2, <3>3, <3>4
  <2>5. QED
    BY <1>2, <1>4, <2>2, <2>3, <2>4 DEF FailureInv
<1>12. QED
  BY <1>5, <1>7, <1>10, <1>11 DEF LoginInv

LEMMA LimiterStep ==
  ASSUME LoginInv, Logins!Next \/ UNCHANGED loginVars
  PROVE  LoginInv'
<1>1. CASE UNCHANGED loginVars
  <2>1. LoginType'
    BY <1>1 DEF LoginInv, LoginType, loginVars
  <2>2. AddressInv' /\ LockInv' /\ FailureInv'
    BY <1>1, AddressStays, FailuresStay DEF LoginInv, loginVars
  <2>3. QED
    BY <2>1, <2>2 DEF LoginInv
<1>2. CASE Logins!Next
  BY <1>2, CountStep, ExpiryStep, EntryStep, SuccessStep, FailStep, FailExpiryStep, LockStep,
     MinuteStep DEF Logins!Next
<1>3. QED
  BY <1>1, <1>2

LEMMA LoginSound ==
  ASSUME LoginInv
  PROVE  Logins!RefusedForThisMinute /\ Logins!EnoughFailuresLock /\ Logins!LockedForFailures
<1>1. Logins!RefusedForThisMinute
  <2>1. Logins!Cardinality(Recent) = Cardinality(Recent)
    BY DEF Cardinality, Logins!Cardinality
  <2>2. Recent = {i \in DOMAIN counted : counted[i] + Minute > now}
    BY DEF Recent, Counts
  <2>3. QED
    BY <2>1, <2>2 DEF LoginInv, AddressInv, Logins!RefusedForThisMinute
<1>2. Logins!EnoughFailuresLock
  BY DEF LoginInv, LockInv, OnItsWayToLock, Failing, Logins!EnoughFailuresLock, Logins!At
<1>3. Logins!LockedForFailures
  BY DEF LoginInv, FailureInv, Logins!LockedForFailures
<1>4. QED
  BY <1>1, <1>2, <1>3

(* Access is given and taken as it should be (login_limiter.go, cmd/mutongctl):
   an address is refused only for its calls of the last minute, an account is
   locked for enough failures and for nothing else, a login is not ended for the
   state it was given itself, and the token file holds what it would hold if
   commands ran one after another. *)
THEOREM AccessAlwaysSound == Spec => []AccessSound
<1> DEFINE Inv == (part = "logins" => LoginInv) /\ (part = "client" => CliInv)
<1>1. Init => Inv
  BY LoginStart, CliStart
<1>2. Inv /\ [Next]_allVars => Inv'
  <2>1. ASSUME Inv, [Next]_allVars, part' = "logins" PROVE LoginInv'
    <3>1. part = "logins"
      BY <2>1 DEF Next, allVars
    <3>2. QED
      BY <2>1, <3>1, LoginSteps, LimiterStep
  <2>2. ASSUME Inv, [Next]_allVars, part' = "client" PROVE CliInv'
    <3>1. part = "client"
      BY <2>2 DEF Next, allVars
    <3>2. QED
      BY <2>2, <3>1, CliSteps, CliStep
  <2>3. QED
    BY <2>1, <2>2
<1>3. Inv => AccessSound
  <2>1. CliInv => Client!OwnStateAccepted /\ Client!FileAsSerial
    BY DEF CliInv, FileInv, Honest, Client!OwnStateAccepted, Client!FileAsSerial
  <2>2. QED
    BY <2>1, LoginSound DEF AccessSound
<1> HIDE DEF Inv
<1>4. QED
  BY <1>1, <1>2, <1>3, PTL DEF Spec, allVars

-----------------------------------------------------------------------------
(* The reports of the inspection.                                            *)

Issues == RuleNames \X Things
Inspecting ==
  [stage: {"idle", "rules", "latest", "persist"}, todo: SUBSET RuleNames,
   issues: SUBSET Issues, failed: SUBSET RuleNames, unheard: SUBSET RuleNames, report: Nat]
Report == [issues: SUBSET Issues, unheard: SUBSET RuleNames, past: SUBSET Nat, ended: BOOLEAN]
Reading == [stage: {"idle", "read"}, row: Nat \cup {NoReport}, past: SUBSET Nat]
\* A rule that did not answer is one of the table, or fails the run, whose
\* report is one of those made.
RunSound(r) ==
  /\ \A n \in r.unheard : rules[n] = "table" \/ n \in r.failed
  /\ r.stage \in {"latest", "persist"} => r.report \in DOMAIN reports
NotOlder(x, k) == \A j \in x.past : j <= k
InspectInv ==
  /\ DOMAIN rules \subseteq RuleNames
  /\ state \in [RuleNames -> SUBSET Things]
  /\ run \in [Inspect!Runs -> Inspecting] /\ \A r \in Inspect!Runs : RunSound(run[r])
  /\ \E k \in Nat : reports \in [1..k -> Report]
  /\ \A k \in DOMAIN reports : /\ NotOlder(reports[k], k)
                               /\ \A n \in reports[k].unheard : rules[n] = "table"
  /\ saved \subseteq DOMAIN reports
  /\ latest # NoReport => NotOlder(latest, latest.number)
  /\ reader \in [Readers -> Reading]
  /\ \A h \in Readers : reader[h].stage = "read" => NotOlder(reader[h], reader[h].row)

LEMMA InspectingFields ==
  ASSUME NEW o \in Inspecting
  PROVE  /\ "stage" \in DOMAIN o /\ "todo" \in DOMAIN o /\ "issues" \in DOMAIN o
         /\ "failed" \in DOMAIN o /\ "unheard" \in DOMAIN o /\ "report" \in DOMAIN o
         /\ o = [x \in DOMAIN o |-> o[x]]
BY DEF Inspecting
LEMMA ReportFields ==
  ASSUME NEW o \in Report
  PROVE  /\ "past" \in DOMAIN o /\ "unheard" \in DOMAIN o /\ "ended" \in DOMAIN o
         /\ o = [x \in DOMAIN o |-> o[x]]
BY DEF Report

LEMMA InspectSteps ==
  ASSUME part = "inspect", [Next]_allVars
  PROVE  part' = part /\ (Inspect!Next \/ UNCHANGED inspectVars)
BY DEF Next, GraphNext, PlatformNext, GraphParts, allVars, graphVars, platformVars

LEMMA IdleRun ==
  Inspect!Idle \in Inspecting /\ Inspect!Idle.stage = "idle" /\ Inspect!Idle.unheard = {}
BY DEF Inspect!Idle, Inspecting
LEMMA WaitingReader == Inspect!Waiting \in Reading /\ Inspect!Waiting.stage = "idle"
BY DEF Inspect!Waiting, Reading

LEMMA InspectStart ==
  ASSUME Init, part = "inspect"
  PROVE  InspectInv
<1>1. Inspect!Init
  BY DEF Init
<1>2. DOMAIN rules \subseteq RuleNames
  <2>1. PICK byFile \in SUBSET RuleNames, builtIn \in SUBSET RuleNames, inTable \in SUBSET RuleNames :
          rules = Inspect!Registered(byFile, builtIn, inTable)
    BY <1>1 DEF Inspect!Init
  <2>2. QED
    BY <2>1 DEF Inspect!Registered
<1>3. run \in [Inspect!Runs -> Inspecting] /\ \A r \in Inspect!Runs : RunSound(run[r])
  BY <1>1, IdleRun DEF Inspect!Init, RunSound
<1>4. reports \in [1..0 -> Report] /\ DOMAIN reports = {}
  BY <1>1 DEF Inspect!Init
<1>5. reader \in [Readers -> Reading] /\ \A h \in Readers : reader[h].stage = "idle"
  BY <1>1, WaitingReader DEF Inspect!Init
<1>6. QED
  BY <1>1, <1>2, <1>3, <1>4, <1>5 DEF Inspect!Init, InspectInv

\* One run goes on; what it has made stays.
LEMMA RunGoesOn ==
  ASSUME InspectInv, NEW r \in Inspect!Runs, NEW new \in Inspecting,
         run' = [run EXCEPT ![r] = new], RunSound(new),
         UNCHANGED <<rules, state, saved, reports, reader>>,
         latest' = latest \/ (latest' # NoReport => NotOlder(latest', latest'.number))
  PROVE  InspectInv'
<1>1. /\ run' \in [Inspect!Runs -> Inspecting] /\ run'[r] = new
      /\ \A q \in Inspect!Runs : q # r => run'[q] = run[q]
  BY DEF InspectInv
<1>2. \A q \in Inspect!Runs : RunSound(run[q])'
  BY <1>1 DEF InspectInv, RunSound
<1>3. QED
  BY <1>1, <1>2 DEF InspectInv, NotOlder

LEMMA RuleStep ==
  ASSUME InspectInv, NEW r \in Inspect!Runs,
         \/ Inspect!Begin(r) \/ Inspect!Discard(r)
         \/ \E n \in RuleNames : Inspect!Found(r, n) \/ Inspect!Fails(r, n)
  PROVE  InspectInv'
<1>1. PICK o \in Inspecting : o = run[r] /\ RunSound(o) /\ run \in [Inspect!Runs -> Inspecting]
  BY DEF InspectInv, RunSound
<1>2. UNCHANGED <<rules, state, saved, reports, reader, latest>>
  BY DEF Inspect!Begin, Inspect!Discard, Inspect!Found, Inspect!Fails
<1>3. CASE Inspect!Begin(r)
  <2>1. DOMAIN rules \in SUBSET RuleNames
    BY DEF InspectInv
  <2>2. PICK new \in Inspecting : new = [Inspect!Idle EXCEPT !.stage = "rules", !.todo = DOMAIN rules]
    BY <2>1, IdleRun DEF Inspecting
  <2>3. RunSound(new)
    BY <2>2, IdleRun DEF RunSound, Inspecting
  <2>4. QED
    BY <1>2, <1>3, <2>2, <2>3, RunGoesOn DEF Inspect!Begin
<1>4. CASE Inspect!Discard(r)
  <2>1. RunSound(Inspect!Idle)
    BY IdleRun DEF RunSound
  <2>2. PICK new \in Inspecting : new = Inspect!Idle /\ RunSound(new)
    BY <2>1, IdleRun DEF RunSound
  <2>3. QED
    BY <1>2, <1>4, <2>2, RunGoesOn DEF Inspect!Discard
<1>5. ASSUME NEW n \in RuleNames, Inspect!Found(r, n) PROVE InspectInv'
  <2>1. Inspect!Check(n, state[n]) \subseteq Issues
    BY DEF Inspect!Check, Issues, InspectInv
  <2>2. PICK rows \in SUBSET Issues : rows = Inspect!Check(n, state[n])
    BY <2>1
  <2>3. PICK new \in Inspecting :
          /\ new = [o EXCEPT !.todo = @ \ {n}, !.issues = @ \cup rows]
          /\ new.unheard = o.unheard /\ new.failed = o.failed /\ new.stage = o.stage
          /\ new.report = o.report
    <3>1. o.todo \ {n} \in SUBSET RuleNames /\ o.issues \cup rows \in SUBSET Issues
      BY DEF Inspecting
    <3>2. PICK new \in Inspecting : new = [o EXCEPT !.todo = @ \ {n}, !.issues = @ \cup rows]
      BY <3>1 DEF Inspecting
    <3>3. /\ new.unheard = o.unheard /\ new.failed = o.failed /\ new.stage = o.stage
          /\ new.report = o.report
      BY <3>2, InspectingFields
    <3>4. QED
      BY <3>2, <3>3
  <2>4. run' = [run EXCEPT ![r] = new]
    BY <1>1, <1>5, <2>2, <2>3 DEF Inspect!Found
  <2>5. RunSound(new)
    BY <1>1, <2>3 DEF RunSound
  <2>6. QED
    BY <1>2, <2>4, <2>5, RunGoesOn
<1>6. ASSUME NEW n \in RuleNames, Inspect!Fails(r, n) PROVE InspectInv'
  <2>1. PICK failed \in SUBSET RuleNames :
          failed = IF rules[n] = "table" THEN o.failed ELSE o.failed \cup {n}
    BY DEF Inspecting
  <2>2. PICK new \in Inspecting :
          /\ new = [o EXCEPT !.todo = @ \ {n}, !.unheard = @ \cup {n}, !.failed = failed]
          /\ new.unheard = o.unheard \cup {n} /\ new.failed = failed /\ new.stage = o.stage
          /\ new.report = o.report
    <3>1. o.todo \ {n} \in SUBSET RuleNames /\ o.unheard \cup {n} \in SUBSET RuleNames
      BY DEF Inspecting
    <3>2. PICK new \in Inspecting :
            new = [o EXCEPT !.todo = @ \ {n}, !.unheard = @ \cup {n}, !.failed = failed]
      BY <3>1 DEF Inspecting
    <3>3. /\ new.unheard = o.unheard \cup {n} /\ new.failed = failed /\ new.stage = o.stage
          /\ new.report = o.report
      BY <3>2, InspectingFields
    <3>4. QED
      BY <3>2, <3>3
  <2>3. run' = [run EXCEPT ![r] = new]
    BY <1>1, <1>6, <2>1, <2>2 DEF Inspect!Fails
  <2>4. RunSound(new)
    BY <1>1, <2>1, <2>2 DEF RunSound
  <2>5. QED
    BY <1>2, <2>3, <2>4, RunGoesOn
<1>7. QED
  BY <1>3, <1>4, <1>5, <1>6

LEMMA GenerateStep ==
  ASSUME InspectInv, NEW r \in Inspect!Runs, Inspect!Generate(r)
  PROVE  InspectInv'
<1>1. PICK o \in Inspecting : o = run[r] /\ RunSound(o) /\ run \in [Inspect!Runs -> Inspecting]
  BY DEF InspectInv, RunSound
<1>2. o.failed = {} /\ o.stage = "rules" /\ UNCHANGED <<rules, state, latest, saved, reader>>
  BY <1>1 DEF Inspect!Generate, Inspect!Reportable
<1>3. PICK n \in Nat : reports \in [1..n -> Report]
  BY DEF InspectInv
<1>4. PICK k \in Nat : k = n + 1
  OBVIOUS
<1>5. Inspect!Cardinality(DOMAIN reports) + 1 = k
  <2>1. DOMAIN reports = 1..n /\ Cardinality(1..n) = n
    BY <1>3, FS_Interval
  <2>2. Inspect!Cardinality(1..n) = Cardinality(1..n)
    BY DEF Cardinality, Inspect!Cardinality
  <2>3. QED
    BY <1>4, <2>1, <2>2
<1> DEFINE past == {j \in DOMAIN reports : reports[j].ended}
<1>6. past \in SUBSET Nat /\ \A j \in past : j <= n
  BY <1>3
<1> HIDE DEF past
<1>7. PICK filed \in Report : /\ filed = [issues |-> o.issues, unheard |-> o.unheard,
                                        past |-> past, ended |-> FALSE]
                             /\ filed.unheard = o.unheard /\ filed.past = past
  <2>1. o.issues \in SUBSET Issues /\ o.unheard \in SUBSET RuleNames
    BY DEF Inspecting
  <2>2. PICK filed \in Report : filed = [issues |-> o.issues, unheard |-> o.unheard,
                                      past |-> past, ended |-> FALSE]
    BY <1>6, <2>1 DEF Report
  <2>3. filed.unheard = o.unheard /\ filed.past = past
    BY <2>2
  <2>4. QED
    BY <2>2, <2>3
<1>8. PICK new \in Inspecting : /\ new = [o EXCEPT !.stage = "latest", !.report = k]
                                /\ new.unheard = o.unheard /\ new.failed = o.failed /\ new.report = k
  <2>1. PICK new \in Inspecting : new = [o EXCEPT !.stage = "latest", !.report = k]
    BY DEF Inspecting
  <2>2. new.unheard = o.unheard /\ new.failed = o.failed /\ new.report = k
    BY <2>1, InspectingFields
  <2>3. QED
    BY <2>1, <2>2
<1>9. /\ reports' = [i \in 1..k |-> IF i = k THEN filed ELSE reports[i]]
      /\ run' = [run EXCEPT ![r] = new]
  BY <1>1, <1>5, <1>7, <1>8 DEF Inspect!Generate, past
<1>10. /\ reports' \in [1..k -> Report] /\ reports'[k] = filed /\ DOMAIN reports \subseteq DOMAIN reports'
       /\ k \in DOMAIN reports'
       /\ \A i \in DOMAIN reports' : i = k \/ (i \in DOMAIN reports /\ reports'[i] = reports[i])
  BY <1>3, <1>4, <1>9
<1>11. /\ run' \in [Inspect!Runs -> Inspecting] /\ run'[r] = new
       /\ \A q \in Inspect!Runs : q # r => run'[q] = run[q]
  BY <1>1, <1>9
<1>12. \A q \in Inspect!Runs : RunSound(run[q])'
  <2>1. RunSound(new)'
    BY <1>1, <1>2, <1>8, <1>10 DEF RunSound
  <2>2. ASSUME NEW q \in Inspect!Runs, q # r PROVE RunSound(run[q])'
    BY <1>2, <1>10, <1>11, <2>2 DEF InspectInv, RunSound
  <2>3. QED
    BY <1>11, <2>1, <2>2 DEF RunSound
<1>13. NotOlder(filed, k)
  BY <1>4, <1>6, <1>7 DEF NotOlder
<1>14. \A n2 \in filed.unheard : rules[n2] = "table"
  BY <1>1, <1>2, <1>7 DEF RunSound
<1>15. QED
  BY <1>2, <1>10, <1>11, <1>12, <1>13, <1>14 DEF InspectInv, NotOlder

LEMMA ReportStep ==
  ASSUME InspectInv, NEW r \in Inspect!Runs, Inspect!Publish(r) \/ Inspect!Persist(r)
  PROVE  InspectInv'
<1>1. PICK o \in Inspecting : o = run[r] /\ RunSound(o) /\ run \in [Inspect!Runs -> Inspecting]
  BY DEF InspectInv, RunSound
<1>2. PICK k \in Nat : k = o.report
  BY DEF Inspecting
<1>3. k \in DOMAIN reports
  BY <1>1, <1>2 DEF Inspect!Publish, Inspect!Persist, RunSound
<1>4. CASE Inspect!Publish(r)
  <2>1. PICK new \in Inspecting : /\ new = [o EXCEPT !.stage = "persist"] /\ new.unheard = o.unheard
                                  /\ new.failed = o.failed /\ new.report = o.report
    <3>1. PICK new \in Inspecting : new = [o EXCEPT !.stage = "persist"]
      BY DEF Inspecting
    <3>2. new.unheard = o.unheard /\ new.failed = o.failed /\ new.report = o.report
      BY <3>1, InspectingFields
    <3>3. QED
      BY <3>1, <3>2
  <2>2. run' = [run EXCEPT ![r] = new] /\ UNCHANGED <<rules, state, saved, reports, reader>>
    BY <1>1, <1>4, <2>1 DEF Inspect!Publish
  <2>3. RunSound(new)
    BY <1>1, <1>2, <1>3, <2>1 DEF RunSound
  <2>4. latest'.number = k /\ latest'.past = reports[k].past
    BY <1>1, <1>2, <1>4 DEF Inspect!Publish
  <2>5. NotOlder(latest', latest'.number)
    BY <1>3, <2>4 DEF InspectInv, NotOlder
  <2>6. QED
    BY <2>2, <2>3, <2>5, RunGoesOn
<1>5. CASE Inspect!Persist(r)
  <2>1. PICK new \in Inspecting : new = Inspect!Idle /\ new.unheard = {} /\ new.stage = "idle"
    BY IdleRun
  <2>2. run' = [run EXCEPT ![r] = new] /\ UNCHANGED <<rules, state, latest, reader>>
        /\ \/ UNCHANGED <<saved, reports>>
           \/ saved' = saved \cup {k} /\ reports' = [reports EXCEPT ![k].ended = TRUE]
    BY <1>1, <1>2, <1>5, <2>1 DEF Inspect!Persist
  <2>3. CASE UNCHANGED <<saved, reports>>
    <3>1. RunSound(new)
      BY <2>1 DEF RunSound
    <3>2. QED
      BY <2>2, <2>3, <3>1, RunGoesOn
  <2>4. CASE saved' = saved \cup {k} /\ reports' = [reports EXCEPT ![k].ended = TRUE]
    <3>1. PICK n \in Nat : reports \in [1..n -> Report]
      BY DEF InspectInv
    <3>2. PICK x \in Report : x = reports[k]
      BY <1>3, <3>1
    <3>3. PICK y \in Report : y = [x EXCEPT !.ended = TRUE] /\ y.past = x.past /\ y.unheard = x.unheard
      <4>1. PICK y \in Report : y = [x EXCEPT !.ended = TRUE]
        BY DEF Report
      <4>2. y.past = x.past /\ y.unheard = x.unheard
        BY <4>1, ReportFields
      <4>3. QED
        BY <4>1, <4>2
    <3>4. reports' = [reports EXCEPT ![k] = y]
      BY <2>4, <3>2, <3>3
    <3>5. /\ reports' \in [1..n -> Report] /\ DOMAIN reports' = DOMAIN reports
          /\ \A i \in DOMAIN reports : reports'[i].past = reports[i].past
                                       /\ reports'[i].unheard = reports[i].unheard
      BY <1>3, <3>1, <3>2, <3>3, <3>4
    <3>6. /\ run' \in [Inspect!Runs -> Inspecting] /\ run'[r] = new
          /\ \A q \in Inspect!Runs : q # r => run'[q] = run[q]
      BY <1>1, <2>2
    <3>7. \A q \in Inspect!Runs : RunSound(run[q])'
      BY <2>1, <2>2, <3>5, <3>6 DEF InspectInv, RunSound
    <3>8. \A i \in DOMAIN reports' : /\ NotOlder(reports'[i], i)
                                     /\ \A m \in reports'[i].unheard : rules'[m] = "table"
      BY <2>2, <3>5 DEF InspectInv, NotOlder
    <3>9. saved' \subseteq DOMAIN reports'
      BY <1>3, <2>4, <3>5 DEF InspectInv
    <3>10. QED
      BY <2>2, <3>5, <3>6, <3>7, <3>8, <3>9 DEF InspectInv, NotOlder
  <2>5. QED
    BY <2>2, <2>3, <2>4
<1>6. QED
  BY <1>4, <1>5

\* A set of naturals with a bound has a greatest element.
LEMMA BoundedHasMax ==
  ASSUME NEW S, S \subseteq Nat, S # {}, NEW b \in Nat, \A y \in S : y <= b
  PROVE  \E x \in S : \A y \in S : x >= y
<1> DEFINE R == {ss \in Nat \X Nat : ss[1] < ss[2]}
           Bounds == {n \in Nat : \A y \in S : y <= n}
<1>1. IsWellFoundedOn(R, Nat)
  BY NatLessThanWellFounded DEF OpToRel
<1>2. Bounds \subseteq Nat /\ Bounds # {}
  OBVIOUS
<1>3. PICK x \in Bounds : \A y \in Bounds : <<y, x>> \notin R
  <2> HIDE DEF R, Bounds
  <2>1. QED
    BY <1>1, <1>2, WFMin
<1>4. \A y \in Bounds : ~(y < x)
  BY <1>3
<1>5. x \in S
  <2>1. SUFFICES ASSUME x \notin S PROVE FALSE
    OBVIOUS
  <2>2. PICK y \in S : TRUE
    OBVIOUS
  <2>3. \A z \in S : z \in Nat /\ z <= x /\ z # x
    BY <2>1
  <2>4. x \in Nat /\ x - 1 \in Nat
    BY <2>2, <2>3
  <2>5. x - 1 \in Bounds
    BY <2>3, <2>4
  <2>6. QED
    BY <1>4, <2>4, <2>5
<1>6. QED
  BY <1>5

LEMMA ReaderStep ==
  ASSUME InspectInv, NEW h \in Readers, Inspect!ReadRow(h) \/ Inspect!KeepRow(h)
  PROVE  InspectInv'
<1>1. /\ UNCHANGED <<rules, state, run, saved, reports>> /\ reader \in [Readers -> Reading]
  BY DEF Inspect!ReadRow, Inspect!KeepRow, InspectInv
<1>2. \A r \in Inspect!Runs : RunSound(run[r])'
  BY <1>1 DEF InspectInv, RunSound
<1>3. CASE Inspect!ReadRow(h)
  <2>1. PICK n \in Nat : reports \in [1..n -> Report]
    BY DEF InspectInv
  <2>2. saved # {} /\ saved \subseteq 1..n
    BY <1>3, <2>1 DEF Inspect!ReadRow, Inspect!NewestRow, InspectInv
  <2>3. PICK top \in saved : \A j \in saved : j <= top
    <3>0. PICK S \in SUBSET Nat : S = saved /\ S # {} /\ \A j \in S : j <= n
      BY <2>2
    <3>1. \E top \in S : \A j \in S : top >= j
      BY <3>0, BoundedHasMax
    <3>2. QED
      BY <2>2, <3>0, <3>1
  <2>4. PICK m \in Nat : m = Inspect!NewestRow /\ \A j \in saved : j <= m
    <3>1. Inspect!NewestRow = CHOOSE x \in saved : \A y \in saved : x >= y
      BY <2>2 DEF Inspect!NewestRow, Inspect!Max
    <3>2. \A y \in saved : top >= y
      BY <2>2, <2>3
    <3>3. Inspect!NewestRow \in saved /\ \A y \in saved : Inspect!NewestRow >= y
      BY <3>1, <3>2
    <3>4. QED
      BY <2>2, <3>3
  <2>5. PICK new \in Reading : /\ new = [stage |-> "read", row |-> m, past |-> saved]
                               /\ new.row = m /\ new.past = saved
    <3>1. saved \in SUBSET Nat
      BY <2>2
    <3>2. PICK new \in Reading : new = [stage |-> "read", row |-> m, past |-> saved]
      BY <3>1 DEF Reading
    <3>3. new.row = m /\ new.past = saved
      BY <3>2
    <3>4. QED
      BY <3>2, <3>3
  <2>6. reader' = [reader EXCEPT ![h] = new] /\ latest' = latest
    BY <1>3, <2>4, <2>5 DEF Inspect!ReadRow
  <2>7. reader' \in [Readers -> Reading] /\ reader'[h] = new
        /\ \A g \in Readers : g # h => reader'[g] = reader[g]
    BY <1>1, <2>6
  <2>8. \A g \in Readers : reader'[g].stage = "read" => NotOlder(reader'[g], reader'[g].row)
    BY <2>4, <2>5, <2>7 DEF InspectInv, NotOlder
  <2>9. QED
    BY <1>1, <1>2, <2>6, <2>7, <2>8 DEF InspectInv, NotOlder
<1>4. CASE Inspect!KeepRow(h)
  <2>1. reader' = [reader EXCEPT ![h] = Inspect!Waiting] /\ reader[h].stage = "read"
        /\ latest'.number = reader[h].row /\ latest'.past = reader[h].past
    BY <1>4 DEF Inspect!KeepRow
  <2>2. NotOlder(latest', latest'.number)
    BY <2>1 DEF InspectInv, NotOlder
  <2>3. reader' \in [Readers -> Reading] /\ reader'[h].stage = "idle"
        /\ \A g \in Readers : g # h => reader'[g] = reader[g]
    BY <1>1, <2>1, WaitingReader
  <2>4. \A g \in Readers : reader'[g].stage = "read" => NotOlder(reader'[g], reader'[g].row)
    BY <2>3 DEF InspectInv, NotOlder
  <2>5. QED
    BY <1>1, <1>2, <2>2, <2>3, <2>4 DEF InspectInv, NotOlder
<1>5. QED
  BY <1>3, <1>4

LEMMA InspectStep ==
  ASSUME InspectInv, Inspect!Next \/ UNCHANGED inspectVars
  PROVE  InspectInv'
<1>1. CASE UNCHANGED inspectVars
  BY <1>1 DEF inspectVars, InspectInv, RunSound, NotOlder
<1>2. ASSUME NEW n \in RuleNames, Inspect!Change(n) PROVE InspectInv'
  <2>1. PICK rows \in SUBSET Things : state' = [state EXCEPT ![n] = rows]
    BY <1>2 DEF Inspect!Change
  <2>2. state' \in [RuleNames -> SUBSET Things]
    BY <2>1 DEF InspectInv
  <2>3. UNCHANGED <<rules, run, latest, saved, reader, reports>>
    BY <1>2 DEF Inspect!Change
  <2>4. QED
    BY <2>2, <2>3 DEF InspectInv, RunSound, NotOlder
<1>3. CASE Inspect!Restart
  <2>1. run' \in [Inspect!Runs -> Inspecting] /\ \A r \in Inspect!Runs : RunSound(run[r])'
    BY <1>3, IdleRun DEF Inspect!Restart, RunSound
  <2>2. reader' \in [Readers -> Reading] /\ \A h \in Readers : reader'[h].stage = "idle"
    BY <1>3, WaitingReader DEF Inspect!Restart
  <2>3. UNCHANGED <<rules, state, saved, reports>> /\ latest' = NoReport
    BY <1>3 DEF Inspect!Restart
  <2>4. QED
    BY <2>1, <2>2, <2>3 DEF InspectInv, NotOlder
<1>4. QED
  BY <1>1, <1>2, <1>3, RuleStep, GenerateStep, ReportStep, ReaderStep DEF Inspect!Next

\* The trend of two finite sets is that of their sizes.
LEMMA TrendOfTotals ==
  ASSUME NEW A, NEW B, IsFiniteSet(A), IsFiniteSet(B)
  PROVE  /\ Cardinality(B \ A) \in Nat /\ Cardinality(A \ B) \in Nat
         /\ Cardinality(A) \in Nat /\ Cardinality(B) \in Nat
         /\ Cardinality(B \ A) > Cardinality(A \ B) <=> Cardinality(B) > Cardinality(A)
         /\ Cardinality(B \ A) < Cardinality(A \ B) <=> Cardinality(B) < Cardinality(A)
<1>1. /\ Cardinality(B \ A) = Cardinality(B) - Cardinality(B \cap A)
      /\ Cardinality(A \ B) = Cardinality(A) - Cardinality(A \cap B)
      /\ IsFiniteSet(B \ A) /\ IsFiniteSet(A \ B) /\ IsFiniteSet(A \cap B)
  BY FS_Difference, FS_Intersection
<1>2. A \cap B = B \cap A
  OBVIOUS
<1>3. /\ Cardinality(B \ A) \in Nat /\ Cardinality(A \ B) \in Nat
      /\ Cardinality(A) \in Nat /\ Cardinality(B) \in Nat /\ Cardinality(A \cap B) \in Nat
  BY <1>1, FS_CardinalityType
<1>4. QED
  BY <1>1, <1>2, <1>3

LEMMA InspectSound ==
  ASSUME InspectInv
  PROVE  Inspect!ReportsAreWhole /\ Inspect!LatestNotOlder /\ Inspect!TrendAgrees
<1>1. Inspect!ReportsAreWhole
  BY DEF InspectInv, Inspect!ReportsAreWhole
<1>2. Inspect!LatestNotOlder
  BY DEF InspectInv, NotOlder, Inspect!LatestNotOlder
<1>3. Inspect!TrendAgrees
  <2>1. \A S : Inspect!Cardinality(S) = Cardinality(S)
    BY DEF Cardinality, Inspect!Cardinality
  <2>2. IsFiniteSet(Issues)
    BY PlatformAssumption, FS_Product DEF Issues
  <2>3. ASSUME NEW a \in saved, NEW b \in saved
        PROVE  /\ IsFiniteSet(reports[a].issues) /\ IsFiniteSet(reports[b].issues)
    <3>1. reports[a].issues \in SUBSET Issues /\ reports[b].issues \in SUBSET Issues
      BY DEF InspectInv, Report
    <3>2. QED
      BY <2>2, <3>1, FS_Subset
  <2>4. ASSUME NEW a \in saved, NEW b \in saved
        PROVE  LET old == Cardinality(reports[a].issues)
                   new == Cardinality(reports[b].issues)
               IN Inspect!Trend(a, b) = IF new > old THEN "worsening"
                                        ELSE IF new < old THEN "improving" ELSE "stable"
    <3> DEFINE A == reports[a].issues
               B == reports[b].issues
    <3>1. IsFiniteSet(A) /\ IsFiniteSet(B)
      BY <2>3
    <3>2. /\ Inspect!NewIssues(a, b) = B \ A /\ Inspect!ResolvedIssues(a, b) = A \ B
      BY DEF Inspect!NewIssues, Inspect!ResolvedIssues
    <3> HIDE DEF A, B
    <3>3. Inspect!Trend(a, b) = IF Cardinality(B \ A) > Cardinality(A \ B) THEN "worsening"
            ELSE IF Cardinality(B \ A) < Cardinality(A \ B) THEN "improving" ELSE "stable"
      BY <2>1, <3>2 DEF Inspect!Trend
    <3>4. QED
      BY <3>1, <3>3, TrendOfTotals DEF A, B
  <2>5. QED
    BY <2>1, <2>4 DEF Inspect!TrendAgrees
<1>4. QED
  BY <1>1, <1>2, <1>3

-----------------------------------------------------------------------------
(* Conversations and their archive.                                          *)

Said == Nat \X {"user", "assistant"}
Page == [at: Sessions \cup {NoSession}, shown: Seq(Said), asked: Sessions \cup {NoSession},
         ask: Nat]
Remembered == [held: BOOLEAN, messages: Seq(Said), fresh: BOOLEAN]
New(ms) == Chat!Range(ms) \ {Chat!Welcome}
\* A question goes to the conversation a tab shows; without one under way what
\* the tab shows is archived.
Shown(r) ==
  /\ r.ask # 0 /\ r.at # NoSession => r.asked = r.at
  /\ (r.at # NoSession /\ r.ask = 0 /\ r.at \notin forgotten \cup emptied) =>
       New(r.shown) \subseteq Chat!Range(archived[r.at])
\* What the process holds of a conversation is archived too.
HeldInv == \A s \in Sessions \ emptied : New(memory[s].messages) \subseteq Chat!Range(archived[s])
ChatType ==
  /\ memory \in [Sessions -> Remembered] /\ fresh \in [Sessions -> BOOLEAN]
  /\ archived \in [Sessions -> Seq(Said)]
  /\ tab \in [Tabs -> Page] /\ questions \in Nat
ChatInv == ChatType /\ HeldInv /\ \A t \in Tabs : Shown(tab[t])

LEMMA ChatSteps ==
  ASSUME part = "chat", [Next]_allVars
  PROVE  part' = part /\ (Chat!Next \/ UNCHANGED chatVars)
BY DEF Next, GraphNext, PlatformNext, GraphParts, allVars, graphVars, platformVars

LEMMA PageFields ==
  ASSUME NEW o \in Page
  PROVE  /\ "at" \in DOMAIN o /\ "shown" \in DOMAIN o /\ "asked" \in DOMAIN o
         /\ "ask" \in DOMAIN o /\ o = [x \in DOMAIN o |-> o[x]]
         /\ o.at \in Sessions \cup {NoSession} /\ o.asked \in Sessions \cup {NoSession}
         /\ o.shown \in Seq(Said) /\ o.ask \in Nat
BY DEF Page
LEMMA RememberedFields ==
  ASSUME NEW o \in Remembered
  PROVE  /\ "held" \in DOMAIN o /\ "messages" \in DOMAIN o /\ "fresh" \in DOMAIN o
         /\ o = [x \in DOMAIN o |-> o[x]] /\ o.messages \in Seq(Said)
BY DEF Remembered

LEMMA NothingHeld ==
  Chat!Absent \in Remembered /\ Chat!Absent.messages = <<>> /\ New(<<>>) = {}
<1>1. <<>> \in Seq(Said)
  OBVIOUS
<1>2. Chat!Absent \in Remembered /\ Chat!Absent.messages = <<>>
  BY <1>1 DEF Chat!Absent, Remembered
<1>3. New(<<>>) = {}
  BY DEF New, Chat!Range
<1>4. QED
  BY <1>2, <1>3

LEMMA WelcomeOnly ==
  Chat!Held(<<Chat!Welcome>>) \in Remembered /\ New(Chat!Held(<<Chat!Welcome>>).messages) = {}
<1>1. Chat!Welcome \in Said
  BY DEF Chat!Welcome, Said
<1> HIDE DEF Said
<1>2. PICK w \in Said : w = Chat!Welcome
  BY <1>1
<1>3. <<w>> \in Seq(Said) /\ Chat!Range(<<w>>) = {w}
  BY DEF Chat!Range
<1>4. Chat!Held(<<w>>) \in Remembered /\ Chat!Held(<<w>>).messages = <<w>>
  BY <1>3 DEF Chat!Held, Remembered
<1>5. QED
  BY <1>2, <1>3, <1>4 DEF New

LEMMA RangeOfConcat ==
  ASSUME NEW S, NEW a \in Seq(S), NEW b \in Seq(S)
  PROVE  /\ a \o b \in Seq(S)
         /\ Chat!Range(a) \subseteq Chat!Range(a \o b)
         /\ Chat!Range(b) \subseteq Chat!Range(a \o b)
<1>1. a \o b \in Seq(S)
  OBVIOUS
<1>2. PICK m \in Nat, n \in Nat : m = Len(a) /\ n = Len(b)
  OBVIOUS
<1>3. DOMAIN a = 1..m /\ DOMAIN b = 1..n /\ DOMAIN (a \o b) = 1..(m + n)
  BY <1>2
<1>4. \A i \in 1..m : (a \o b)[i] = a[i] /\ i \in 1..(m + n)
  BY <1>2
<1>5. \A i \in 1..n : (a \o b)[m + i] = b[i] /\ m + i \in 1..(m + n)
  BY <1>2
<1>6. QED
  BY <1>1, <1>3, <1>4, <1>5 DEF Chat!Range

LEMMA ChatStart ==
  ASSUME Init, part = "chat"
  PROVE  ChatInv
<1>1. Chat!Init
  BY DEF Init
<1>2. PICK empty \in Page : /\ empty = [at |-> NoSession, shown |-> <<>>, asked |-> NoSession, ask |-> 0]
                            /\ empty.at = NoSession
  <2>1. <<>> \in Seq(Said)
    OBVIOUS
  <2>2. PICK empty \in Page :
          empty = [at |-> NoSession, shown |-> <<>>, asked |-> NoSession, ask |-> 0]
    BY <2>1 DEF Page
  <2>3. empty.at = NoSession
    BY <2>2
  <2>4. QED
    BY <2>2, <2>3
<1>3. tab \in [Tabs -> Page] /\ \A t \in Tabs : tab[t].at = NoSession
  BY <1>1, <1>2 DEF Chat!Init
<1>4. memory \in [Sessions -> Remembered] /\ \A s \in Sessions : memory[s].messages = <<>>
  BY <1>1, NothingHeld DEF Chat!Init
<1>5. archived \in [Sessions -> Seq(Said)] /\ fresh \in [Sessions -> BOOLEAN] /\ questions = 0
  BY <1>1 DEF Chat!Init
<1>6. HeldInv
  BY <1>4, NothingHeld DEF HeldInv
<1>7. QED
  BY <1>3, <1>4, <1>5, <1>6 DEF ChatInv, ChatType, Shown

\* The archive of a conversation only grows until the cleanup empties it.
LEMMA ChatGoesOn ==
  ASSUME ChatInv, ChatType', forgotten \subseteq forgotten', emptied \subseteq emptied',
         \A s \in Sessions \ emptied' : Chat!Range(archived[s]) \subseteq Chat!Range(archived'[s]),
         \A s \in Sessions \ emptied' :
           \/ memory'[s].messages = memory[s].messages
           \/ New(memory'[s].messages) \subseteq Chat!Range(archived'[s]),
         \A t \in Tabs : tab'[t] = tab[t] \/ Shown(tab[t])'
  PROVE  ChatInv'
<1>1. HeldInv'
  BY DEF ChatInv, HeldInv, New
<1>2. ASSUME NEW t \in Tabs PROVE Shown(tab[t])'
  <2>1. tab[t].at \in Sessions \cup {NoSession}
    BY PageFields DEF ChatInv, ChatType, Page
  <2>2. CASE tab'[t] = tab[t]
    BY <2>1, <2>2 DEF ChatInv, Shown, New
  <2>3. QED
    BY <2>2
<1>3. QED
  BY <1>1, <1>2 DEF ChatInv

LEMMA AskStep ==
  ASSUME ChatInv, NEW t \in Tabs, Chat!Ask(t)
  PROVE  ChatInv'
<1>1. ChatType
  BY DEF ChatInv
<1>2. PICK o \in Page : o = tab[t]
  BY <1>1 DEF ChatType
<1>3. PICK n \in Nat : n = questions + 1 /\ n # 0
  BY <1>1 DEF ChatType
<1>4. PICK s \in Sessions \cup {NoSession}, failing \in {{}, {"redis"}, {"pg"}, {"diagnosis"}} :
        /\ tab' = [tab EXCEPT ![t].shown = Append(@, Chat!Question(questions + 1)),
                              ![t].ask = questions + 1, ![t].asked = s]
        /\ \/ s = o.at /\ UNCHANGED <<memory, fresh, forgotten>>
           \/ o.at = NoSession /\ s \in Sessions /\ Chat!Create(s, failing)
           \/ o.at = NoSession /\ UNCHANGED <<memory, fresh, forgotten>>
  BY <1>2 DEF Chat!Ask, Chat!Unused
<1>5. questions' = n /\ UNCHANGED <<archived, emptied>>
  BY <1>3 DEF Chat!Ask
<1>6. PICK shown \in Seq(Said) : shown = Append(o.shown, Chat!Question(n))
  <2>1. PICK q \in Said : q = Chat!Question(n)
    BY DEF Chat!Question, Said
  <2>2. PICK before \in Seq(Said) : before = o.shown
    BY PageFields
  <2>3. Append(before, q) \in Seq(Said)
    OBVIOUS
  <2>4. QED
    BY <2>1, <2>2, <2>3
<1>7. PICK r \in Page : r = [o EXCEPT !.shown = shown, !.ask = n, !.asked = s]
  BY DEF Page
<1>8. r.at = o.at /\ r.ask = n /\ r.asked = s
  BY <1>7, PageFields
<1>9. tab' = [tab EXCEPT ![t] = r]
  BY <1>1, <1>2, <1>3, <1>4, <1>6, <1>7 DEF ChatType
<1>10. tab' \in [Tabs -> Page] /\ tab'[t] = r /\ \A u \in Tabs : u # t => tab'[u] = tab[u]
  BY <1>1, <1>9 DEF ChatType
<1>11. Shown(r)'
  BY <1>3, <1>4, <1>8 DEF Shown
<1>12. CASE UNCHANGED <<memory, fresh, forgotten>>
  <2>1. ChatType'
    BY <1>1, <1>5, <1>10, <1>12 DEF ChatType
  <2>2. QED
    BY <1>5, <1>10, <1>11, <1>12, <2>1, ChatGoesOn
<1>13. CASE s \in Sessions /\ Chat!Create(s, failing)
  <2>1. /\ memory' = [memory EXCEPT ![s] = Chat!Held(<<Chat!Welcome>>)]
        /\ fresh' = [fresh EXCEPT ![s] = "pg" \notin failing]
        /\ forgotten \subseteq forgotten'
    BY <1>13 DEF Chat!Create
  <2>2. /\ memory' \in [Sessions -> Remembered] /\ New(memory'[s].messages) = {}
        /\ \A q \in Sessions : q # s => memory'[q] = memory[q]
    BY <1>1, <1>13, <2>1, WelcomeOnly DEF ChatType
  <2>3. fresh' \in [Sessions -> BOOLEAN]
    BY <1>1, <2>1 DEF ChatType
  <2>4. ChatType'
    BY <1>1, <1>5, <1>10, <2>2, <2>3 DEF ChatType
  <2>5. QED
    BY <1>5, <1>10, <1>11, <2>1, <2>2, <2>4, ChatGoesOn
<1>14. QED
  BY <1>4, <1>12, <1>13

LEMMA AnswerStep ==
  ASSUME ChatInv, NEW t \in Tabs, NEW answered \in BOOLEAN, Chat!Answer(t, answered)
  PROVE  ChatInv'
<1>1. ChatType
  BY DEF ChatInv
<1>2. PICK o \in Page : o = tab[t]
  BY <1>1 DEF ChatType
<1>3. PICK s \in Sessions \cup {NoSession} : s = o.asked
  BY PageFields
<1>4. PICK batch \in Seq(Said) : batch = Chat!Batch(t, answered)
  <2>1. o.shown \in Seq(Said) /\ Chat!Reply(o.ask) \in Said
    BY PageFields DEF Chat!Reply, Said
  <2>2. Append(o.shown, Chat!Reply(o.ask)) \in Seq(Said)
    BY <2>1
  <2>3. QED
    BY <1>2, <2>1, <2>2 DEF Chat!Batch
<1>5. /\ UNCHANGED <<memory, fresh, questions, emptied>>
      /\ \/ s # NoSession /\ archived' = [archived EXCEPT ![s] = @ \o batch] /\ forgotten' = forgotten
         \/ s = NoSession /\ UNCHANGED <<archived, forgotten>>
         \/ s # NoSession /\ forgotten' = forgotten \cup {s} /\ archived' = archived
  BY <1>2, <1>3, <1>4 DEF Chat!Answer, Chat!Stored
<1>6. PICK c \in Sessions \cup {NoSession} : c = IF s = NoSession THEN o.at ELSE s
  BY PageFields
<1>7. PICK r \in Page : r = [o EXCEPT !.ask = 0, !.asked = NoSession, !.at = c, !.shown = batch]
  BY DEF Page
<1>8. r.ask = 0 /\ r.at = c /\ r.shown = batch
  BY <1>7, PageFields
<1>9. tab' = [tab EXCEPT ![t] = r]
  BY <1>1, <1>2, <1>3, <1>4, <1>6, <1>7 DEF ChatType, Chat!Answer
<1>10. tab' \in [Tabs -> Page] /\ tab'[t] = r /\ \A u \in Tabs : u # t => tab'[u] = tab[u]
  BY <1>1, <1>9 DEF ChatType
<1>11. CASE s # NoSession /\ archived' = [archived EXCEPT ![s] = @ \o batch] /\ forgotten' = forgotten
  <2>1. PICK before \in Seq(Said) : before = archived[s]
    BY <1>1, <1>11 DEF ChatType
  <2>2. /\ before \o batch \in Seq(Said)
        /\ Chat!Range(before) \subseteq Chat!Range(before \o batch)
        /\ Chat!Range(batch) \subseteq Chat!Range(before \o batch)
    BY RangeOfConcat
  <2>3. /\ archived' \in [Sessions -> Seq(Said)] /\ archived'[s] = before \o batch
        /\ \A q \in Sessions : q # s => archived'[q] = archived[q]
    BY <1>1, <1>11, <2>1, <2>2 DEF ChatType
  <2>4. \A q \in Sessions : Chat!Range(archived[q]) \subseteq Chat!Range(archived'[q])
    BY <2>1, <2>2, <2>3
  <2>5. Shown(r)'
    BY <1>6, <1>8, <1>11, <2>2, <2>3 DEF Shown, New
  <2>6. ChatType'
    BY <1>1, <1>5, <1>10, <2>3 DEF ChatType
  <2>7. QED
    BY <1>5, <1>10, <1>11, <2>4, <2>5, <2>6, ChatGoesOn
<1>12. CASE s = NoSession /\ UNCHANGED <<archived, forgotten>>
  <2>1. o.ask # 0
    BY <1>2 DEF Chat!Answer, Chat!Busy
  <2>2. c = NoSession
    BY <1>2, <1>3, <1>6, <1>12, <2>1 DEF ChatInv, Shown
  <2>3. Shown(r)'
    BY <1>8, <2>2 DEF Shown
  <2>4. ChatType'
    BY <1>1, <1>5, <1>10, <1>12 DEF ChatType
  <2>5. QED
    BY <1>5, <1>10, <1>12, <2>3, <2>4, ChatGoesOn
<1>13. CASE s # NoSession /\ forgotten' = forgotten \cup {s} /\ archived' = archived
  <2>1. Shown(r)'
    BY <1>6, <1>8, <1>13 DEF Shown
  <2>2. ChatType'
    BY <1>1, <1>5, <1>10, <1>13 DEF ChatType
  <2>3. QED
    BY <1>5, <1>10, <1>13, <2>1, <2>2, ChatGoesOn
<1>14. QED
  BY <1>5, <1>11, <1>12, <1>13

LEMMA LoadedIsArchived ==
  ASSUME ChatInv, NEW s \in Sessions
  PROVE  /\ Chat!Loaded(s) \in Remembered
         /\ s \notin emptied => New(Chat!Loaded(s).messages) \subseteq Chat!Range(archived[s])
<1>1. PICK m \in Remembered : m = memory[s]
  BY DEF ChatInv, ChatType
<1>2. PICK a \in Seq(Said), f \in BOOLEAN : a = archived[s] /\ f = fresh[s]
  BY DEF ChatInv, ChatType
<1>3. s \notin emptied => New(m.messages) \subseteq Chat!Range(a)
  BY <1>1, <1>2 DEF ChatInv, HeldInv
<1>4. CASE Chat!Loaded(s) = m
  BY <1>2, <1>3, <1>4
<1>5. CASE Chat!Loaded(s) = [m EXCEPT !.messages = a]
  <2>1. PICK r \in Remembered : r = [m EXCEPT !.messages = a]
    BY DEF Remembered
  <2>2. r.messages = a
    BY <2>1, RememberedFields
  <2>3. QED
    BY <1>2, <1>5, <2>1, <2>2 DEF New
<1>6. CASE Chat!Loaded(s) = Chat!Held(<<>>)
  <2>1. <<>> \in Seq(Said)
    OBVIOUS
  <2>2. Chat!Held(<<>>) \in Remembered /\ Chat!Held(<<>>).messages = <<>>
    BY <2>1 DEF Chat!Held, Remembered
  <2>3. QED
    BY <1>6, <2>2, NothingHeld
<1>7. CASE Chat!Loaded(s) = [Chat!Held(a) EXCEPT !.fresh = f]
  <2>1. PICK h \in Remembered : h = Chat!Held(a) /\ h.messages = a
    <3>1. PICK h \in Remembered : h = Chat!Held(a)
      BY DEF Chat!Held, Remembered
    <3>2. h.messages = a
      BY <3>1 DEF Chat!Held
    <3>3. QED
      BY <3>1, <3>2
  <2>2. PICK r \in Remembered : r = [h EXCEPT !.fresh = f]
    BY DEF Remembered
  <2>3. r.messages = a
    BY <2>1, <2>2, RememberedFields
  <2>4. QED
    BY <1>2, <1>7, <2>1, <2>2, <2>3 DEF New
<1>8. QED
  BY <1>1, <1>2, <1>4, <1>5, <1>6, <1>7 DEF Chat!Loaded

LEMMA OpenStep ==
  ASSUME ChatInv, NEW t \in Tabs, NEW s \in Sessions, Chat!Load(t, s)
  PROVE  ChatInv'
<1>1. ChatType
  BY DEF ChatInv
<1>2. PICK o \in Page : o = tab[t]
  BY <1>1 DEF ChatType
<1>3. PICK m \in Remembered : m = Chat!Loaded(s)
  BY LoadedIsArchived
<1>4. s \notin emptied => New(m.messages) \subseteq Chat!Range(archived[s])
  BY <1>3, LoadedIsArchived
<1>5. m.messages \in Seq(Said)
  BY RememberedFields
<1>6. PICK r \in Page : r = [o EXCEPT !.at = s, !.shown = m.messages]
  BY <1>5 DEF Page
<1>7. r.at = s /\ r.shown = m.messages /\ r.ask = o.ask
  BY <1>6, PageFields
<1>8. /\ o.ask = 0 /\ memory' = [memory EXCEPT ![s] = m] /\ tab' = [tab EXCEPT ![t] = r]
      /\ UNCHANGED <<fresh, archived, questions, forgotten, emptied>>
  BY <1>1, <1>2, <1>3, <1>6 DEF Chat!Load, Chat!Busy, ChatType
<1>9. tab' \in [Tabs -> Page] /\ tab'[t] = r /\ \A u \in Tabs : u # t => tab'[u] = tab[u]
  BY <1>1, <1>8 DEF ChatType
<1>10. /\ memory' \in [Sessions -> Remembered] /\ memory'[s] = m
       /\ \A q \in Sessions : q # s => memory'[q] = memory[q]
  BY <1>1, <1>8 DEF ChatType
<1>11. Shown(r)'
  BY <1>4, <1>7, <1>8 DEF Shown
<1>12. ChatType'
  BY <1>1, <1>8, <1>9, <1>10 DEF ChatType
<1>13. QED
  BY <1>4, <1>8, <1>9, <1>10, <1>11, <1>12, ChatGoesOn

LEMMA Dropped ==
  ASSUME ChatType, NEW ids \in SUBSET Sessions, memory' = Chat!Drop(ids)
  PROVE  /\ memory' \in [Sessions -> Remembered]
         /\ \A s \in Sessions : memory'[s].messages = memory[s].messages \/ New(memory'[s].messages) = {}
BY NothingHeld DEF Chat!Drop, ChatType

\* A tab deletes, a session is closed, the hourly cleanup drops what is stale.
LEMMA DropStep ==
  ASSUME ChatInv,
         \/ \E t \in Tabs, s \in Sessions : Chat!Delete(t, s)
         \/ \E s \in Sessions : Chat!Close(s)
         \/ Chat!Cleanup
  PROVE  ChatInv'
<1>1. ChatType
  BY DEF ChatInv
<1>2. UNCHANGED <<fresh, archived, questions, forgotten, emptied>>
  BY DEF Chat!Delete, Chat!Close, Chat!Cleanup
<1>3. PICK ids \in SUBSET Sessions : memory' = Chat!Drop(ids)
  <2>1. ASSUME NEW s \in Sessions PROVE {s} \in SUBSET Sessions
    OBVIOUS
  <2>2. {s \in Sessions : memory[s].held /\ ~memory[s].fresh} \in SUBSET Sessions
    OBVIOUS
  <2>3. QED
    BY <2>1, <2>2 DEF Chat!Delete, Chat!Close, Chat!Cleanup
<1>4. /\ memory' \in [Sessions -> Remembered]
      /\ \A s \in Sessions : memory'[s].messages = memory[s].messages \/ New(memory'[s].messages) = {}
  BY <1>1, <1>3, Dropped
<1>5. tab' \in [Tabs -> Page] /\ \A t \in Tabs : tab'[t] = tab[t] \/ Shown(tab[t])'
  <2>1. CASE tab' = tab
    BY <1>1, <2>1 DEF ChatType
  <2>2. ASSUME NEW t \in Tabs,
               tab' = [tab EXCEPT ![t] = [tab[t] EXCEPT !.at = NoSession, !.shown = <<>>]]
        PROVE  tab' \in [Tabs -> Page] /\ \A u \in Tabs : tab'[u] = tab[u] \/ Shown(tab[u])'
    <3>1. PICK o \in Page : o = tab[t]
      BY <1>1 DEF ChatType
    <3>2. <<>> \in Seq(Said)
      OBVIOUS
    <3>3. PICK r \in Page : r = [o EXCEPT !.at = NoSession, !.shown = <<>>]
      BY <3>2 DEF Page
    <3>4. r.at = NoSession
      BY <3>3, PageFields
    <3>5. tab' \in [Tabs -> Page] /\ tab'[t] = r /\ \A u \in Tabs : u # t => tab'[u] = tab[u]
      BY <1>1, <2>2, <3>1, <3>3 DEF ChatType
    <3>6. QED
      BY <3>4, <3>5 DEF Shown
  <2>3. ASSUME NEW t \in Tabs, NEW s \in Sessions, Chat!Delete(t, s)
        PROVE  tab' = tab
               \/ tab' = [tab EXCEPT ![t] = [tab[t] EXCEPT !.at = NoSession, !.shown = <<>>]]
    BY <1>1, <2>3 DEF Chat!Delete, ChatType
  <2>4. QED
    BY <2>1, <2>2, <2>3 DEF Chat!Close, Chat!Cleanup
<1>6. ChatType'
  BY <1>1, <1>2, <1>4, <1>5 DEF ChatType
<1>7. QED
  BY <1>2, <1>4, <1>5, <1>6, ChatGoesOn

\* The goroutines behind a deletion, a title or the cleanup.
LEMMA JobStep ==
  ASSUME ChatInv, NEW j \in toDelete, Chat!Finish(j) \/ Chat!Fail(j)
  PROVE  ChatInv'
<1>1. ChatType
  BY DEF ChatInv
<1>2. UNCHANGED <<memory, tab, questions>> /\ forgotten \subseteq forgotten'
      /\ emptied \subseteq emptied'
  BY DEF Chat!Finish, Chat!Fail
<1>3. fresh' \in [Sessions -> BOOLEAN]
  BY <1>1 DEF ChatType, Chat!Finish, Chat!Fail, Chat!Unstore, Chat!CloseRow, Chat!Title,
              Chat!Find, Chat!Expire
<1>4. /\ archived' \in [Sessions -> Seq(Said)]
      /\ \A s \in Sessions \ emptied' : archived'[s] = archived[s]
  <2>1. CASE archived' = archived
    BY <1>1, <2>1 DEF ChatType
  <2>2. CASE Chat!Finish(j) /\ Chat!Expire(j)
    <3>1. /\ archived' = [s \in Sessions |-> IF s \in j.ids THEN <<>> ELSE archived[s]]
          /\ emptied' = emptied \cup j.ids
      BY <2>2 DEF Chat!Finish, Chat!Expire
    <3>2. <<>> \in Seq(Said)
      OBVIOUS
    <3>3. QED
      BY <1>1, <3>1, <3>2 DEF ChatType
  <2>3. QED
    BY <2>1, <2>2 DEF Chat!Finish, Chat!Fail, Chat!Unstore, Chat!CloseRow, Chat!Title, Chat!Find
<1>5. ChatType'
  BY <1>1, <1>2, <1>3, <1>4 DEF ChatType
<1>6. QED
  BY <1>2, <1>4, <1>5, ChatGoesOn

LEMMA GapStep ==
  ASSUME ChatInv, Chat!Idle
  PROVE  ChatInv'
<1>1. ChatType
  BY DEF ChatInv
<1>2. /\ memory' = [s \in Sessions |-> [memory[s] EXCEPT !.fresh = FALSE]]
      /\ fresh' = [s \in Sessions |-> FALSE]
      /\ UNCHANGED <<archived, tab, questions, forgotten, emptied>>
  BY DEF Chat!Idle
<1>3. ASSUME NEW s \in Sessions
      PROVE  /\ [memory[s] EXCEPT !.fresh = FALSE] \in Remembered
             /\ memory'[s].messages = memory[s].messages
  <2>1. PICK m \in Remembered : m = memory[s]
    BY <1>1 DEF ChatType
  <2>2. PICK r \in Remembered : r = [m EXCEPT !.fresh = FALSE]
    BY DEF Remembered
  <2>3. r.messages = m.messages
    BY <2>2, RememberedFields
  <2>4. memory'[s] = r
    BY <1>2, <2>1, <2>2
  <2>5. QED
    BY <2>1, <2>2, <2>3, <2>4
<1>4. memory' \in [Sessions -> Remembered]
  BY <1>2, <1>3
<1>5. ChatType'
  BY <1>1, <1>2, <1>4 DEF ChatType
<1>6. QED
  BY <1>2, <1>3, <1>5, ChatGoesOn

LEMMA RestartStep ==
  ASSUME ChatInv, Chat!Restart
  PROVE  ChatInv'
<1>1. ChatType
  BY DEF ChatInv
<1>2. /\ memory' = [s \in Sessions |-> Chat!Absent]
      /\ \A t \in Tabs : tab[t].asked # NoSession => tab[t].asked \in forgotten'
      /\ forgotten \subseteq forgotten'
      /\ tab' = [t \in Tabs |-> [tab[t] EXCEPT !.ask = 0, !.asked = NoSession]]
      /\ UNCHANGED <<fresh, archived, questions, emptied>>
  <2> DEFINE asking == {tab[t].asked : t \in Tabs} \ {NoSession}
             waiting == UNION {j.ids : j \in toDelete}
  <2>1. /\ memory' = [s \in Sessions |-> Chat!Absent]
        /\ forgotten' = forgotten \cup waiting \cup asking
        /\ tab' = [t \in Tabs |-> [tab[t] EXCEPT !.ask = 0, !.asked = NoSession]]
        /\ UNCHANGED <<fresh, archived, questions, emptied>>
    BY DEF Chat!Restart
  <2>2. \A t \in Tabs : tab[t].asked # NoSession => tab[t].asked \in asking
    OBVIOUS
  <2> HIDE DEF asking, waiting
  <2>3. forgotten \subseteq forgotten' /\ asking \subseteq forgotten'
    BY <2>1
  <2>4. QED
    BY <2>1, <2>2, <2>3
<1>3. memory' \in [Sessions -> Remembered] /\ \A s \in Sessions : New(memory'[s].messages) = {}
  BY <1>2, NothingHeld
<1>4. ASSUME NEW t \in Tabs
      PROVE  [tab[t] EXCEPT !.ask = 0, !.asked = NoSession] \in Page /\ Shown(tab[t])'
  <2>1. PICK o \in Page : o = tab[t]
    BY <1>1 DEF ChatType
  <2>2. PICK r \in Page : r = [o EXCEPT !.ask = 0, !.asked = NoSession]
    BY DEF Page
  <2>3. r.ask = 0 /\ r.at = o.at /\ r.shown = o.shown
    BY <2>2, PageFields
  <2>4. tab'[t] = r
    BY <1>2, <2>1, <2>2
  <2>5. Shown(o) /\ (o.asked # NoSession => o.asked \in forgotten')
    BY <1>2, <2>1 DEF ChatInv, Shown
  <2>6. Shown(r)'
    <3>1. o.at # NoSession /\ o.ask # 0 => o.at \in forgotten'
      BY <2>5 DEF Shown
    <3>2. QED
      BY <1>2, <2>3, <2>5, <3>1 DEF Shown, New
  <2>7. QED
    BY <2>1, <2>2, <2>4, <2>6 DEF Shown
<1>5. tab' \in [Tabs -> Page]
  BY <1>2, <1>4
<1>6. ChatType'
  BY <1>1, <1>2, <1>3, <1>5 DEF ChatType
<1>7. QED
  BY <1>2, <1>3, <1>4, <1>6, ChatGoesOn

LEMMA ChatStep ==
  ASSUME ChatInv, Chat!Next \/ UNCHANGED chatVars
  PROVE  ChatInv'
<1>1. CASE UNCHANGED chatVars
  BY <1>1 DEF chatVars, ChatInv, ChatType, HeldInv, Shown
<1>2. ASSUME NEW s \in Sessions, Chat!CopyExpires(s) PROVE ChatInv'
  BY <1>2 DEF Chat!CopyExpires, ChatInv, ChatType, HeldInv, Shown
<1>3. QED
  BY <1>1, <1>2, AskStep, AnswerStep, OpenStep, DropStep, JobStep, GapStep, RestartStep
     DEF Chat!Next

(* Records are kept (inspection_service.go, chat_session.go): a report lacks no
   answer of a built-in or configured rule, the latest one is not older than one
   complete before the question, comparisons agree with the totals, and what a
   tab shows of a conversation is in its archive, from whichever store it was
   loaded and whatever was evicted, deleted or restarted since. *)
THEOREM RecordsAlwaysKept == Spec => []RecordsKept
<1> DEFINE Inv == (part = "inspect" => InspectInv) /\ (part = "chat" => ChatInv)
<1>1. Init => Inv
  BY InspectStart, ChatStart
<1>2. Inv /\ [Next]_allVars => Inv'
  <2>1. ASSUME Inv, [Next]_allVars, part' = "inspect" PROVE InspectInv'
    <3>1. part = "inspect"
      BY <2>1 DEF Next, allVars
    <3>2. QED
      BY <2>1, <3>1, InspectSteps, InspectStep
  <2>2. ASSUME Inv, [Next]_allVars, part' = "chat" PROVE ChatInv'
    <3>1. part = "chat"
      BY <2>2 DEF Next, allVars
    <3>2. QED
      BY <2>2, <3>1, ChatSteps, ChatStep
  <2>3. QED
    BY <2>1, <2>2
<1>3. Inv => RecordsKept
  <2>1. ChatInv => Chat!AnswersArchived
    BY DEF ChatInv, Shown, New, Chat!AnswersArchived, Chat!Busy
  <2>2. QED
    BY <2>1, InspectSound DEF RecordsKept
<1> HIDE DEF Inv
<1>4. QED
  BY <1>1, <1>2, <1>3, PTL DEF Spec, allVars

=============================================================================
