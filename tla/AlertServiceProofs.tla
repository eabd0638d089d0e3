------------------------- MODULE AlertServiceProofs -------------------------
(* The alert pipeline answers with every worker finished, suppresses only  *)
(* on account of another alert, keeps its two registries in step, and has  *)
(* applied what it answered, for every value of the constants.             *)
EXTENDS AlertService, FiniteSetTheorems, SequenceTheorems, TLAPS

-----------------------------------------------------------------------------
(* Types and the counting of workers.                                      *)

Result == [index: Slots, alert: Alerts]
Request ==
  [phase: {"idle", "spawn", "collect", "done"}, items: Seq(Item), spawned: Nat,
   got: Nat, processed: [Slots -> Alerts \cup {NoAlert}]]

Working == {"register", "parents", "downstreams", "save", "notify"}

\* What a worker carries in each phase: what enrichment found while it checks
\* (and no exception), and no decision before a check has decided.
Carries(j) ==
  /\ j.phase \in {"parents", "downstreams"} => j.info \in EnrichedAlert /\ ~j.info.exempt
  /\ j.phase \in {"idle", "register", "parents", "downstreams"} => j.by = NoAlert

\* How far a request is: what was spawned is running, in the channel, or collected.
Progress(r) ==
  /\ Len(request[r].items) <= MaxBatch
  /\ \A i, j \in DOMAIN request[r].items :
       i # j => request[r].items[i].alert # request[r].items[j].alert
  /\ request[r].phase = "idle" => request[r] = NewRequest
  /\ request[r].phase = "spawn" => request[r].spawned < Len(request[r].items)
  /\ request[r].phase \in {"collect", "done"}
       => request[r].spawned = Len(request[r].items)
  /\ request[r].phase = "done" => request[r].got = Len(request[r].items)
  /\ \A i \in Slots : job[r][i].phase # "idle" <=> i <= request[r].spawned
  /\ Cardinality(Running(r)) <= WorkerCount
  /\ Cardinality(Running(r)) + Len(results[r]) + request[r].got = request[r].spawned

\* The part of the type invariant about requests and their workers ...
WorkersInv ==
  /\ request \in [Requests -> Request]
  /\ results \in [Requests -> Seq(Result)]
  /\ job \in [Requests -> [Slots -> Job]]
  /\ \A r \in Requests : Progress(r)
  /\ \A r \in Requests, i \in Slots : Carries(job[r][i])

\* ... and the part about what they share.
SharedInv ==
  /\ now \in 0..Horizon
  /\ source \in [Alerts -> [is: Event, told: Event, shared: BOOLEAN]]
  /\ active \in [Alerts -> Registered \cup {NotActive}]
  /\ index \in [Apps \X Namespaces -> SUBSET Alerts]
  /\ lastCleanup \in Int
  /\ store \in [Alerts -> Row]

TypeInv == WorkersInv /\ SharedInv

\* The running workers of a request are finitely many.
LEMMA RunningFinite ==
  ASSUME NEW r \in Requests
  PROVE  IsFiniteSet(Running(r)) /\ Cardinality(Running(r)) \in Nat
<1>1. IsFiniteSet(Slots)
  BY FS_Interval, ConstantsAssumption DEF Slots
<1>2. Running(r) \in SUBSET Slots
  BY DEF Running
<1>3. QED
  BY <1>1, <1>2, FS_Subset, FS_CardinalityType

\* The invariant types every variable.
LEMMA TypesHold == TypeInv => TypeOK
<1> SUFFICES ASSUME TypeInv PROVE TypeOK
  OBVIOUS
<1>1. ASSUME NEW r \in Requests
      PROVE  /\ request[r].phase \in {"idle", "spawn", "collect", "done"}
             /\ request[r].items \in Seq(Item)
             /\ request[r].spawned \in 0..Len(request[r].items)
             /\ request[r].processed \in [Slots -> Alerts \cup {NoAlert}]
             /\ results[r] \in Seq([index: Slots, alert: Alerts])
             /\ \A i \in Slots : job[r][i].phase # "idle" <=> i <= request[r].spawned
             /\ Cardinality(Running(r)) <= WorkerCount
             /\ Cardinality(Running(r)) + Len(results[r]) + request[r].got
                  = request[r].spawned
  <2>1. request[r] \in Request /\ results[r] \in Seq(Result) /\ Progress(r)
    BY DEF TypeInv, WorkersInv
  <2>2. Len(request[r].items) \in Nat
    BY <2>1, LenProperties DEF Request
  <2>3. request[r].spawned \in 0..Len(request[r].items)
    BY <2>1, <2>2 DEF Request, Progress, NewRequest
  <2>4. QED
    BY <2>1, <2>3 DEF Request, Progress, Result
<1>2. QED
  BY <1>1 DEF TypeInv, WorkersInv, SharedInv, TypeOK

\* One worker that changes changes the set of running workers by itself at most.
LEMMA OneWorkerChanges ==
  ASSUME WorkersInv, NEW r \in Requests, NEW i \in Slots, NEW x \in Job,
         job' = [job EXCEPT ![r][i] = x]
  PROVE  /\ job' \in [Requests -> [Slots -> Job]]
         /\ \A q \in Requests, k \in Slots :
              job'[q][k] = IF q = r /\ k = i THEN x ELSE job[q][k]
         /\ \A q \in Requests \ {r} : Running(q)' = Running(q)
         /\ Running(r)' = IF x.phase \in {"idle", "done"} THEN Running(r) \ {i}
                          ELSE Running(r) \cup {i}
<1>1. job \in [Requests -> [Slots -> Job]]
  BY DEF WorkersInv
<1>2. job' \in [Requests -> [Slots -> Job]]
  BY <1>1
<1>3. \A q \in Requests, k \in Slots :
        job'[q][k] = IF q = r /\ k = i THEN x ELSE job[q][k]
  BY <1>1
<1>4. \A q \in Requests \ {r} : Running(q)' = Running(q)
  BY <1>3 DEF Running
<1>5. Running(r)' = IF x.phase \in {"idle", "done"} THEN Running(r) \ {i}
                    ELSE Running(r) \cup {i}
  BY <1>3 DEF Running
<1>6. QED
  BY <1>2, <1>3, <1>4, <1>5

\* A worker that goes on working changes nothing about its request.
LEMMA WorkerGoesOn ==
  ASSUME WorkersInv, NEW r \in Requests, NEW i \in Slots, NEW x \in Job,
         job' = [job EXCEPT ![r][i] = x],
         job[r][i].phase \in Working, x.phase \in Working, Carries(x),
         UNCHANGED <<request, results>>
  PROVE  WorkersInv'
<1>1. /\ job' \in [Requests -> [Slots -> Job]]
      /\ \A q \in Requests, k \in Slots :
           job'[q][k] = IF q = r /\ k = i THEN x ELSE job[q][k]
      /\ \A q \in Requests \ {r} : Running(q)' = Running(q)
      /\ Running(r)' = IF x.phase \in {"idle", "done"} THEN Running(r) \ {i}
                       ELSE Running(r) \cup {i}
  BY OneWorkerChanges
<1>2. Running(r)' = Running(r)
  BY <1>1 DEF Running, Working
<1>3. ASSUME NEW q \in Requests PROVE Progress(q)'
  <2>1. Running(q)' = Running(q)
    BY <1>1, <1>2
  <2>2. \A k \in Slots : (job[q][k].phase # "idle") <=> (job'[q][k].phase # "idle")
    BY <1>1 DEF Working
  <2>3. Progress(q)
    BY DEF WorkersInv
  <2>4. QED
    BY <2>1, <2>2, <2>3 DEF Progress
<1>4. \A q \in Requests, k \in Slots : Carries(job[q][k])'
  <2>1. \A q \in Requests, k \in Slots : Carries(job[q][k])
    BY DEF WorkersInv
  <2>2. QED
    BY <2>1, <1>1 DEF Carries
<1>5. QED
  BY <1>1, <1>3, <1>4 DEF WorkersInv

\* A worker that ends puts one result into the channel.
LEMMA WorkerEnds ==
  ASSUME WorkersInv, NEW r \in Requests, NEW i \in Slots, NEW res \in Result,
         job[r][i].phase \in Working,
         job' = [job EXCEPT ![r][i] = [NoJob EXCEPT !.phase = "done"]],
         results' = [results EXCEPT ![r] = Append(@, res)],
         UNCHANGED request
  PROVE  WorkersInv'
<1> DEFINE x == [NoJob EXCEPT !.phase = "done"]
<1>1. x \in Job /\ x.phase = "done" /\ Carries(x)
  BY DEF Job, NoJob, JobPhases, Carries
<1> HIDE DEF x
<1>2. /\ job' \in [Requests -> [Slots -> Job]]
      /\ \A q \in Requests, k \in Slots :
           job'[q][k] = IF q = r /\ k = i THEN x ELSE job[q][k]
      /\ \A q \in Requests \ {r} : Running(q)' = Running(q)
      /\ Running(r)' = Running(r) \ {i}
  <2>1. job' = [job EXCEPT ![r][i] = x]
    BY DEF x
  <2>2. \A y \in Job : job' = [job EXCEPT ![r][i] = y] =>
          /\ job' \in [Requests -> [Slots -> Job]]
          /\ \A q \in Requests, k \in Slots :
               job'[q][k] = IF q = r /\ k = i THEN y ELSE job[q][k]
          /\ \A q \in Requests \ {r} : Running(q)' = Running(q)
          /\ Running(r)' = IF y.phase \in {"idle", "done"} THEN Running(r) \ {i}
                           ELSE Running(r) \cup {i}
    BY OneWorkerChanges
  <2>3. QED
    BY <1>1, <2>1, <2>2, Zenon
<1>3. results \in [Requests -> Seq(Result)]
  BY DEF WorkersInv
<1>4. /\ results' \in [Requests -> Seq(Result)]
      /\ \A q \in Requests \ {r} : results'[q] = results[q]
      /\ Len(results'[r]) = Len(results[r]) + 1
  BY <1>3
<1>5. Progress(r)'
  <2>1. i \in Running(r)
    BY DEF Running, Working
  <2>2. Cardinality(Running(r)') = Cardinality(Running(r)) - 1
    BY <1>2, <2>1, RunningFinite, FS_RemoveElement
  <2>3. Progress(r) /\ request[r] \in Request
    BY DEF WorkersInv
  <2>4. \A k \in Slots : (job[r][k].phase # "idle") <=> (job'[r][k].phase # "idle")
    BY <1>1, <1>2 DEF Working
  <2>5. /\ Cardinality(Running(r))' = Cardinality(Running(r)) - 1
        /\ Cardinality(Running(r)) \in Nat /\ Len(results[r]) \in Nat
    BY <2>2, RunningFinite, <1>3
  <2>6. request[r].phase # "idle"
    <3>1. SUFFICES ASSUME request[r].phase = "idle" PROVE FALSE
      OBVIOUS
    <3>2. request[r].spawned = 0 /\ i >= 1
      BY <3>1, <2>3 DEF Progress, NewRequest, Slots
    <3>3. i <= request[r].spawned
      BY <2>3 DEF Progress, Working
    <3>4. QED
      BY <3>2, <3>3 DEF Slots
  <2>7. WorkerCount \in Nat
    BY ConstantsAssumption
  <2>8. QED
    BY <2>3, <2>4, <2>5, <2>6, <2>7, <1>4 DEF Progress, Request
<1>6. ASSUME NEW q \in Requests, q # r PROVE Progress(q)'
  <2>1. Progress(q) /\ Running(q)' = Running(q) /\ results'[q] = results[q]
    BY <1>6, <1>2, <1>4 DEF WorkersInv
  <2>2. \A k \in Slots : job'[q][k] = job[q][k]
    BY <1>6, <1>2
  <2>3. QED
    BY <2>1, <2>2 DEF Progress
<1>7. \A q \in Requests, k \in Slots : Carries(job[q][k])'
  <2>1. \A q \in Requests, k \in Slots : Carries(job[q][k])
    BY DEF WorkersInv
  <2>2. QED
    BY <2>1, <1>1, <1>2 DEF Carries
<1>8. QED
  BY <1>2, <1>4, <1>5, <1>6, <1>7 DEF WorkersInv

\* In the beginning there are neither requests nor workers.
LEMMA WorkersInit == Init => WorkersInv
<1> SUFFICES ASSUME Init PROVE WorkersInv
  OBVIOUS
<1>1. NoJob \in Job /\ NoJob.phase = "idle" /\ Carries(NoJob)
  BY DEF Job, NoJob, JobPhases, Carries
<1>2. NewRequest \in Request
  <2>1. <<>> \in Seq(Item)
    OBVIOUS
  <2>2. QED
    BY <2>1 DEF NewRequest, Request
<1>3. /\ request = [r \in Requests |-> NewRequest]
      /\ job = [r \in Requests |-> [i \in Slots |-> NoJob]]
      /\ results = [r \in Requests |-> <<>>]
  BY DEF Init
<1>4. job \in [Requests -> [Slots -> Job]] /\ \A r \in Requests, i \in Slots : job[r][i] = NoJob
  BY <1>1, <1>3
<1>5. ASSUME NEW r \in Requests PROVE Progress(r)
  <2>1. Running(r) = {}
    BY <1>1, <1>4 DEF Running
  <2>2. Cardinality(Running(r)) = 0
    BY <2>1, FS_EmptySet
  <2>3. /\ request[r] = NewRequest /\ results[r] = <<>>
        /\ \A i \in Slots : job[r][i].phase = "idle" /\ i > 0
    BY <1>1, <1>3, <1>4 DEF Slots
  <2>4. {MaxBatch, WorkerCount} \subseteq Nat \ {0}
    BY ConstantsAssumption
  <2>5. /\ request[r].phase = "idle" /\ request[r].spawned = 0 /\ request[r].got = 0
        /\ request[r].items = <<>>
    BY <2>3 DEF NewRequest
  <2>6. Len(request[r].items) = 0 /\ DOMAIN request[r].items = {} /\ Len(results[r]) = 0
    BY <2>3, <2>5
  <2>7. QED
    BY <2>2, <2>3, <2>4, <2>5, <2>6 DEF Progress, Slots
<1>6. results \in [Requests -> Seq(Result)]
  BY <1>3
<1>7. QED
  BY <1>1, <1>2, <1>3, <1>4, <1>5, <1>6 DEF WorkersInv

\* What is posted is a sequence of items, one per alert of the group.
LEMMA PostedItems ==
  ASSUME SharedInv, NEW n \in Slots, NEW group \in [1..n -> Alerts],
         \A i \in DOMAIN group : source[group[i]].is.status # "none",
         NEW items,
         items = [i \in DOMAIN group |->
           [alert |-> group[i], status |-> source[group[i]].is.status,
            start |-> source[group[i]].is.start]]
  PROVE  items \in Seq(Item) /\ Len(items) = n /\ n <= MaxBatch /\ n > 0
<1>1. n \in Nat /\ n <= MaxBatch /\ n > 0
  BY ConstantsAssumption DEF Slots
<1>2. items \in [1..n -> Item]
  BY DEF SharedInv, Event, Item, Statuses
<1>3. items \in Seq(Item) /\ Len(items) = n
  BY <1>1, <1>2
<1>4. QED
  BY <1>1, <1>3

\* Posting a request starts it with nothing done.
LEMMA SendWorkers ==
  ASSUME TypeInv, NEW r \in Requests, NEW n \in Slots, NEW group \in [1..n -> Alerts],
         Send(r, group)
  PROVE  WorkersInv'
<1> DEFINE items == [i \in DOMAIN group |->
             [alert |-> group[i], status |-> source[group[i]].is.status,
              start |-> source[group[i]].is.start]]
<1>1. items \in Seq(Item) /\ Len(items) = n /\ n <= MaxBatch /\ n > 0
  BY PostedItems DEF Send, TypeInv
<1>2. \A i, j \in DOMAIN items : i # j => items[i].alert # items[j].alert
  BY DEF Send
<1>3. /\ request' = [request EXCEPT ![r].phase = "spawn", ![r].items = items]
      /\ request[r].phase = "idle" /\ UNCHANGED <<job, results>>
  BY DEF Send
<1> HIDE DEF items
<1>4. /\ request \in [Requests -> Request] /\ results \in [Requests -> Seq(Result)]
      /\ job \in [Requests -> [Slots -> Job]] /\ \A q \in Requests : Progress(q)
      /\ \A q \in Requests, i \in Slots : Carries(job[q][i])
  BY DEF TypeInv, WorkersInv
<1>5. /\ request' \in [Requests -> Request]
      /\ request'[r] = [NewRequest EXCEPT !.phase = "spawn", !.items = items]
      /\ \A q \in Requests \ {r} : request'[q] = request[q]
  <2>1. request[r] = NewRequest
    BY <1>3, <1>4 DEF Progress
  <2>2. QED
    BY <1>1, <1>3, <1>4, <2>1 DEF Request
<1>6. \A q \in Requests : Running(q)' = Running(q)
  BY <1>3 DEF Running
<1>7. Progress(r)'
  <2>1. Progress(r) /\ request[r] = NewRequest
    BY <1>3, <1>4 DEF Progress
  <2>2. MaxBatch \in Nat /\ WorkerCount \in Nat
    BY ConstantsAssumption
  <2>3. /\ request'[r].phase = "spawn" /\ request'[r].items = items
        /\ request'[r].spawned = 0 /\ request'[r].got = 0
    BY <1>5 DEF NewRequest
  <2>4. /\ request[r].spawned = 0 /\ request[r].got = 0
        /\ results'[r] = results[r] /\ job'[r] = job[r] /\ Running(r)' = Running(r)
    BY <1>3, <1>6, <2>1 DEF NewRequest
  <2>5. QED
    BY <1>1, <1>2, <2>1, <2>2, <2>3, <2>4 DEF Progress
<1>8. ASSUME NEW q \in Requests, q # r PROVE Progress(q)'
  <2>1. /\ request'[q] = request[q] /\ results'[q] = results[q] /\ job'[q] = job[q]
        /\ Running(q)' = Running(q) /\ Progress(q)
    BY <1>3, <1>4, <1>5, <1>6, <1>8
  <2>2. QED
    BY <2>1 DEF Progress
<1>9. QED
  BY <1>3, <1>4, <1>5, <1>7, <1>8 DEF WorkersInv, Carries

\* The next alert of a request gets a worker.
LEMMA SpawnWorkers ==
  ASSUME WorkersInv, NEW r \in Requests, Spawn(r)
  PROVE  WorkersInv'
<1> DEFINE i == request[r].spawned + 1
           x == [job[r][i] EXCEPT !.phase = "register"]
<1>1. /\ request \in [Requests -> Request] /\ results \in [Requests -> Seq(Result)]
      /\ job \in [Requests -> [Slots -> Job]] /\ \A q \in Requests : Progress(q)
      /\ \A q \in Requests, k \in Slots : Carries(job[q][k])
  BY DEF WorkersInv
<1>2. /\ request[r].phase = "spawn" /\ request[r].spawned \in Nat
      /\ request[r].spawned < Len(request[r].items) /\ Len(request[r].items) <= MaxBatch
      /\ MaxBatch \in Nat /\ Len(request[r].items) \in Nat
  BY <1>1, ConstantsAssumption, LenProperties DEF Spawn, Progress, Request
<1>3. i \in Slots /\ job[r][i].phase = "idle"
  <2>1. i \in Slots
    BY <1>2 DEF Slots
  <2>2. i > request[r].spawned
    BY <1>2
  <2>3. QED
    BY <1>1, <1>2, <2>1, <2>2 DEF Progress
<1>4. x \in Job /\ x.phase = "register" /\ Carries(x)
  <2>1. job[r][i] \in Job /\ Carries(job[r][i])
    BY <1>1, <1>3
  <2>2. QED
    BY <2>1, <1>3 DEF Job, JobPhases, Carries
<1>5. /\ job' = [job EXCEPT ![r][i] = x]
      /\ request' = [request EXCEPT ![r].spawned = i,
           ![r].phase = IF i = Len(request[r].items) THEN "collect" ELSE @]
      /\ UNCHANGED results
      /\ Cardinality(Running(r)) < WorkerCount
  BY <1>1, <1>3 DEF Spawn
<1> HIDE DEF x
<1>6. /\ job' \in [Requests -> [Slots -> Job]]
      /\ \A q \in Requests, k \in Slots :
           job'[q][k] = IF q = r /\ k = i THEN x ELSE job[q][k]
      /\ \A q \in Requests \ {r} : Running(q)' = Running(q)
      /\ Running(r)' = Running(r) \cup {i}
  <2>1. \A y \in Job : job' = [job EXCEPT ![r][i] = y] =>
          /\ job' \in [Requests -> [Slots -> Job]]
          /\ \A q \in Requests, k \in Slots :
               job'[q][k] = IF q = r /\ k = i THEN y ELSE job[q][k]
          /\ \A q \in Requests \ {r} : Running(q)' = Running(q)
          /\ Running(r)' = IF y.phase \in {"idle", "done"} THEN Running(r) \ {i}
                           ELSE Running(r) \cup {i}
    BY <1>3, OneWorkerChanges
  <2>2. "register" \notin {"idle", "done"}
    OBVIOUS
  <2>3. QED
    BY <1>4, <1>5, <2>1, <2>2, Zenon
<1>7. /\ request' \in [Requests -> Request]
      /\ request'[r].items = request[r].items /\ request'[r].spawned = i
      /\ request'[r].got = request[r].got
      /\ request'[r].phase = IF i = Len(request[r].items) THEN "collect" ELSE "spawn"
      /\ \A q \in Requests \ {r} : request'[q] = request[q]
  <2>1. request[r] \in Request /\ i \in Nat
    BY <1>1, <1>2
  <2>2. request'[r] = [request[r] EXCEPT !.spawned = i,
           !.phase = IF i = Len(request[r].items) THEN "collect" ELSE "spawn"]
    BY <1>1, <1>2, <1>5, <2>1 DEF Request
  <2>3. request'[r] \in Request
    BY <2>1, <2>2 DEF Request
  <2>4. DOMAIN request' = Requests /\ request' = [q \in Requests |-> request'[q]]
    BY <1>1, <1>5
  <2>5. \A q \in Requests \ {r} : request'[q] = request[q]
    BY <1>1, <1>5
  <2>6. request' \in [Requests -> Request]
    BY <1>1, <2>3, <2>4, <2>5
  <2>7. QED
    BY <2>1, <2>2, <2>5, <2>6 DEF Request
<1>8. Cardinality(Running(r))' = Cardinality(Running(r)) + 1
  <2>1. i \notin Running(r)
    BY <1>3 DEF Running
  <2>2. Cardinality(Running(r)') = Cardinality(Running(r)) + 1
    <3>1. \A k : Cardinality(Running(r) \cup {k}) =
               IF k \in Running(r) THEN Cardinality(Running(r)) ELSE Cardinality(Running(r)) + 1
      BY RunningFinite, FS_AddElement
    <3>2. QED
      BY <1>6, <2>1, <3>1
  <2>3. QED
    BY <2>2
<1>9. Progress(r)'
  <2>1. Progress(r) /\ WorkerCount \in Nat /\ Cardinality(Running(r)) \in Nat
    BY <1>1, ConstantsAssumption, RunningFinite
  <2>2. \A k \in Slots : job'[r][k].phase # "idle" <=> k <= i
    <3>1. ASSUME NEW k \in Slots PROVE job'[r][k].phase # "idle" <=> k <= i
      <4>1. CASE k = i
        BY <4>1, <1>3, <1>4, <1>6 DEF Slots
      <4>2. CASE k # i
        <5>1. job'[r][k] = job[r][k]
          BY <4>2, <1>6
        <5>2. job[r][k].phase # "idle" <=> k <= request[r].spawned
          BY <2>1 DEF Progress
        <5>3. QED
          BY <4>2, <5>1, <5>2, <1>2 DEF Slots
      <4>3. QED
        BY <4>1, <4>2
    <3>2. QED
      BY <3>1
  <2>3. results'[r] = results[r] /\ Len(results[r]) \in Nat /\ request[r].got \in Nat
    BY <1>1, <1>5 DEF Request
  <2>4. Cardinality(Running(r)) + Len(results[r]) + request[r].got = request[r].spawned
    BY <2>1 DEF Progress
  <2>5. Cardinality(Running(r))' + Len(results'[r]) + request'[r].got = request'[r].spawned
    <3>1. /\ Len(results'[r]) = Len(results[r]) /\ request'[r].got = request[r].got
          /\ request'[r].spawned = request[r].spawned + 1
      BY <1>7, <2>3
    <3>2. QED
      <4>1. /\ Cardinality(Running(r)) \in Nat /\ Len(results[r]) \in Nat
            /\ request[r].got \in Nat /\ request[r].spawned \in Nat
        BY <1>2, <2>1, <2>3
      <4>2. \E a, b, c, d \in Nat : /\ a = Cardinality(Running(r)) /\ b = Len(results[r])
                                   /\ c = request[r].got /\ d = request[r].spawned
        BY <4>1, Zenon
      <4>3. PICK a, b, c, d \in Nat : /\ a = Cardinality(Running(r)) /\ b = Len(results[r])
                                    /\ c = request[r].got /\ d = request[r].spawned
        BY <4>2, Zenon
      <4>4. a + b + c = d
        BY <2>4, <4>3, Zenon
      <4>5. (a + 1) + b + c = d + 1
        BY <4>4
      <4>6. QED
        BY <1>8, <3>1, <4>3, <4>5, Zenon
  <2>6. QED
    BY <1>2, <1>5, <1>7, <1>8, <2>1, <2>2, <2>5 DEF Progress
<1>10. ASSUME NEW q \in Requests, q # r PROVE Progress(q)'
  <2>1. /\ request'[q] = request[q] /\ results'[q] = results[q]
        /\ Running(q)' = Running(q) /\ Progress(q)
    BY <1>1, <1>5, <1>6, <1>7, <1>10
  <2>2. \A k \in Slots : job'[q][k] = job[q][k]
    BY <1>6, <1>10
  <2>3. QED
    BY <2>1, <2>2 DEF Progress
<1>11. \A q \in Requests, k \in Slots : Carries(job[q][k])'
  <2>1. \A q \in Requests, k \in Slots : Carries(job[q][k])
    BY <1>1
  <2>2. \A q \in Requests, k \in Slots : job'[q][k] = x \/ job'[q][k] = job[q][k]
    BY <1>6, Zenon
  <2>3. \A q \in Requests, k \in Slots : Carries(job'[q][k])
    BY <1>4, <2>1, <2>2, Zenon
  <2>4. QED
    BY <2>3 DEF Carries
<1>12. QED
  BY <1>5, <1>1, <1>6, <1>7, <1>9, <1>10, <1>11 DEF WorkersInv

\* The loop that collects the results takes one from the channel.
LEMMA CollectWorkers ==
  ASSUME WorkersInv, NEW r \in Requests, Collect(r)
  PROVE  WorkersInv'
<1>1. /\ request \in [Requests -> Request] /\ results \in [Requests -> Seq(Result)]
      /\ job \in [Requests -> [Slots -> Job]] /\ \A q \in Requests : Progress(q)
      /\ \A q \in Requests, k \in Slots : Carries(job[q][k])
  BY DEF WorkersInv
<1> DEFINE res == Head(results[r])
           got == request[r].got + 1
<1>2. results[r] \in Seq(Result) /\ results[r] # <<>> /\ request[r].phase = "collect"
  BY <1>1 DEF Collect
<1>3. /\ res \in Result /\ Tail(results[r]) \in Seq(Result)
      /\ Len(Tail(results[r])) = Len(results[r]) - 1 /\ Len(results[r]) \in Nat
  BY <1>2
<1>4. /\ request' = [request EXCEPT ![r].got = got,
           ![r].processed[res.index] = res.alert,
           ![r].phase = IF got = Len(request[r].items) THEN "done" ELSE @]
      /\ results' = [results EXCEPT ![r] = Tail(@)]
      /\ UNCHANGED job
  BY DEF Collect, Collected
<1> HIDE DEF res
<1>5. /\ request' \in [Requests -> Request]
      /\ request'[r].items = request[r].items /\ request'[r].got = got
      /\ request'[r].spawned = request[r].spawned
      /\ request'[r].phase = IF got = Len(request[r].items) THEN "done" ELSE "collect"
      /\ \A q \in Requests \ {r} : request'[q] = request[q]
  <2>1. request[r] \in Request /\ res.index \in Slots /\ res.alert \in Alerts
    BY <1>1, <1>3 DEF Result
  <2>2. [request[r].processed EXCEPT ![res.index] = res.alert]
          \in [Slots -> Alerts \cup {NoAlert}]
    BY <2>1 DEF Request
  <2>3. request'[r] = [request[r] EXCEPT !.got = got,
           !.processed = [request[r].processed EXCEPT ![res.index] = res.alert],
           !.phase = IF got = Len(request[r].items) THEN "done" ELSE "collect"]
    BY <1>1, <1>2, <1>4, <2>1 DEF Request
  <2>4. got \in Nat
    BY <2>1 DEF Request
  <2>5. \A q \in Requests \ {r} : request'[q] = request[q]
    BY <1>1, <1>4
  <2>6. request' \in [Requests -> Request]
    <3>1. request'[r] \in Request
      BY <2>1, <2>2, <2>3, <2>4 DEF Request
    <3>2. DOMAIN request' = Requests /\ request' = [q \in Requests |-> request'[q]]
      BY <1>1, <1>4
    <3>3. \A q \in Requests : request'[q] \in Request
      BY <1>1, <2>5, <3>1
    <3>4. QED
      BY <3>2, <3>3
  <2>7. QED
    BY <2>1, <2>3, <2>5, <2>6 DEF Request
<1>6. \A q \in Requests : Running(q)' = Running(q)
  BY <1>4 DEF Running
<1>7. Progress(r)'
  <2>1. Progress(r) /\ Cardinality(Running(r)) \in Nat /\ request[r].got \in Nat
    BY <1>1, RunningFinite DEF Request
  <2>2. results'[r] = Tail(results[r])
    BY <1>1, <1>4
  <2>3. Cardinality(Running(r))' + Len(results'[r]) + request'[r].got = request'[r].spawned
    BY <1>3, <1>5, <1>6, <2>1, <2>2 DEF Progress
  <2>4. QED
    BY <1>2, <1>4, <1>5, <1>6, <2>1, <2>3 DEF Progress
<1>8. ASSUME NEW q \in Requests, q # r PROVE Progress(q)'
  <2>1. /\ request'[q] = request[q] /\ results'[q] = results[q] /\ job'[q] = job[q]
        /\ Running(q)' = Running(q) /\ Progress(q)
    BY <1>1, <1>4, <1>5, <1>6, <1>8
  <2>2. QED
    BY <2>1 DEF Progress
<1>9. results' \in [Requests -> Seq(Result)]
  BY <1>1, <1>3, <1>4
<1>10. QED
  BY <1>1, <1>4, <1>5, <1>7, <1>8, <1>9 DEF WorkersInv, Carries

-----------------------------------------------------------------------------
(* The steps of a worker.                                                  *)

\* A path has at most three elements, and its last one is no parent.
LEMMA AtMostTwoParents ==
  ASSUME NEW e \in EnrichedAlert
  PROVE  /\ ParentCount(TopologyPath(e)) \in Int
         /\ ParentCount(TopologyPath(e)) <= 2
<1> DEFINE a == IF e.node # NoName THEN <<Node(e.node)>> ELSE <<>>
           b == IF e.kind = "Pod" THEN <<[kind |-> "Pod", name |-> e.name]>> ELSE <<>>
           c == IF e.owner # NoName THEN <<[kind |-> "Deployment", name |-> e.owner]>>
                ELSE <<>>
           Any == {Node(e.node), [kind |-> "Pod", name |-> e.name],
                   [kind |-> "Deployment", name |-> e.owner]}
<1>1. /\ a \in Seq(Any) /\ Len(a) \in Nat /\ Len(a) <= 1
      /\ b \in Seq(Any) /\ Len(b) \in Nat /\ Len(b) <= 1
      /\ c \in Seq(Any) /\ Len(c) \in Nat /\ Len(c) <= 1
  <2>1. /\ <<>> \in Seq(Any) /\ Len(<<>>) \in Nat /\ Len(<<>>) <= 1
        /\ \A s \in Any : <<s>> \in Seq(Any) /\ Len(<<s>>) \in Nat /\ Len(<<s>>) <= 1
    OBVIOUS
  <2>2. /\ Node(e.node) \in Any /\ [kind |-> "Pod", name |-> e.name] \in Any
        /\ [kind |-> "Deployment", name |-> e.owner] \in Any
    OBVIOUS
  <2> HIDE DEF Any
  <2>3. QED
    BY <2>1, <2>2, Zenon
<1>2. TopologyPath(e) = IF e.kind = "Node" THEN <<Node(e.name)>> ELSE a \o b \o c
  BY DEF TopologyPath
<1> HIDE DEF a, b, c, Any
<1>3. Len(a \o b \o c) \in Nat /\ Len(a \o b \o c) <= 3
  <2>1. a \o b \in Seq(Any) /\ Len(a \o b) = Len(a) + Len(b)
    BY <1>1, ConcatProperties
  <2>2. Len(a \o b \o c) = Len(a \o b) + Len(c)
    BY <1>1, <2>1, ConcatProperties
  <2>3. Len(a \o b) \in Nat /\ Len(a \o b) <= 2
    BY <1>1, <2>1
  <2>4. QED
    BY <1>1, <2>2, <2>3
<1>4. Len(<<Node(e.name)>>) = 1
  OBVIOUS
<1>5. Len(TopologyPath(e)) \in Nat /\ Len(TopologyPath(e)) <= 3
  BY <1>2, <1>3, <1>4
<1>6. MaxDepth \in Nat
  BY ConstantsAssumption
<1>7. ASSUME NEW path, Len(path) \in Nat, Len(path) <= 3
      PROVE  ParentCount(path) \in Int /\ ParentCount(path) <= 2
  <2>1. PICK all \in Int : all = Len(path) - 1 /\ all <= 2
    BY <1>7
  <2>2. ParentCount(path) = IF MaxDepth = 0 \/ MaxDepth > all THEN all ELSE MaxDepth
    BY <2>1, Zenon DEF ParentCount
  <2>3. QED
    BY <1>6, <2>1, <2>2
<1>8. QED
  BY <1>5, <1>7

\* What a running worker may use: its alert, its item, and what it carries.
LEMMA WorkerFacts ==
  ASSUME WorkersInv, NEW r \in Requests, NEW i \in Slots, job[r][i].phase # "idle"
  PROVE  /\ i \in DOMAIN request[r].items
         /\ The(r, i) \in Item /\ Fp(r, i) \in Alerts
         /\ Fp(r, i) = The(r, i).alert
         /\ job[r][i] \in Job /\ Carries(job[r][i])
         /\ request[r].phase # "idle"
<1>1. request[r] \in Request /\ Progress(r) /\ job \in [Requests -> [Slots -> Job]]
      /\ Carries(job[r][i])
  BY DEF WorkersInv
<1>2. i <= request[r].spawned
  BY <1>1 DEF Progress
<1>3. request[r].items \in Seq(Item) /\ Len(request[r].items) \in Nat
  BY <1>1, LenProperties DEF Request
<1>4. request[r].phase # "idle"
  <2>1. SUFFICES ASSUME request[r].phase = "idle" PROVE FALSE
    OBVIOUS
  <2>2. request[r].spawned = 0
    BY <1>1, <2>1 DEF Progress, NewRequest
  <2>3. QED
    BY <1>2, <2>2 DEF Slots
<1>5. request[r].spawned <= Len(request[r].items)
  BY <1>1, <1>3, <1>4 DEF Progress, Request
<1>6. i \in 1..Len(request[r].items)
  BY <1>1, <1>2, <1>3, <1>5 DEF Slots, Request
<1>7. request[r].items[i] \in Item /\ i \in DOMAIN request[r].items
  BY <1>3, <1>6
<1>8. QED
  BY <1>1, <1>4, <1>7 DEF The, Fp, Item

\* Registration keeps the types.
LEMMA RegisterTypes ==
  ASSUME TypeInv, NEW r \in Requests, NEW i \in Slots, Register(r, i)
  PROVE  TypeInv'
<1>1. WorkersInv /\ SharedInv /\ job[r][i].phase = "register"
  BY DEF TypeInv, Register, At
<1>2. /\ The(r, i) \in Item /\ Fp(r, i) \in Alerts /\ job[r][i] \in Job
      /\ Carries(job[r][i])
  BY <1>1, WorkerFacts
<1>3. PICK e \in Found[Fp(r, i)] :
        /\ active' = [Evicted(active) EXCEPT ![Fp(r, i)] =
             IF The(r, i).status = "firing" THEN [info |-> e, start |-> The(r, i).start]
             ELSE NotActive]
        /\ index' = Indexed(Fp(r, i), The(r, i).status, e)
        /\ job' = [job EXCEPT ![r][i].info = e,
             ![r][i].phase = IF e.exempt THEN "save" ELSE "parents"]
  BY DEF Register
<1>4. e \in EnrichedAlert
  BY <1>2, ConstantsAssumption
<1>5. WorkersInv'
  <2> DEFINE x == [job[r][i] EXCEPT !.info = e,
                     !.phase = IF e.exempt THEN "save" ELSE "parents"]
  <2>1. x \in Job /\ x.phase \in Working /\ Carries(x)
    <3>1. e.exempt \in BOOLEAN
      BY <1>4 DEF EnrichedAlert
    <3>2. QED
      BY <1>1, <1>2, <1>4, <3>1 DEF Job, JobPhases, Working, Carries
  <2>2. job' = [job EXCEPT ![r][i] = x]
    BY <1>1, <1>3 DEF WorkersInv
  <2>3. UNCHANGED <<request, results>> /\ job[r][i].phase \in Working
    BY <1>1 DEF Register, Working
  <2> HIDE DEF x
  <2>4. QED
    BY <1>1, <2>1, <2>2, <2>3, WorkerGoesOn
<1>6. active' \in [Alerts -> Registered \cup {NotActive}]
  <2>1. Evicted(active) \in [Alerts -> Registered \cup {NotActive}]
    BY <1>1 DEF Evicted, SharedInv
  <2>2. [info |-> e, start |-> The(r, i).start] \in Registered
    BY <1>2, <1>4 DEF Registered, Item
  <2>3. QED
    BY <1>3, <2>1, <2>2
<1>7. index' \in [Apps \X Namespaces -> SUBSET Alerts]
  <2>1. index \in [Apps \X Namespaces -> SUBSET Alerts]
    BY <1>1 DEF SharedInv
  <2>2. e.app # NoName => <<e.app, e.ns>> \in Apps \X Namespaces
    BY <1>4 DEF EnrichedAlert
  <2>3. QED
    BY <1>2, <1>3, <2>1, <2>2 DEF Indexed
<1>8. lastCleanup' \in Int /\ UNCHANGED <<now, source, store>>
  BY <1>1 DEF Register, SharedInv
<1>9. QED
  BY <1>1, <1>5, <1>6, <1>7, <1>8 DEF TypeInv, SharedInv

\* The check of one parent keeps the types.
LEMMA CheckParentTypes ==
  ASSUME TypeInv, NEW r \in Requests, NEW i \in Slots, CheckParent(r, i)
  PROVE  TypeInv'
<1>1. WorkersInv /\ SharedInv /\ job[r][i].phase = "parents"
  BY DEF TypeInv, CheckParent, At
<1>2. /\ Fp(r, i) \in Alerts /\ job[r][i] \in Job /\ Carries(job[r][i])
      /\ job[r][i].info \in EnrichedAlert /\ job \in [Requests -> [Slots -> Job]]
  BY <1>1, WorkerFacts DEF Carries, WorkersInv
<1>3. UNCHANGED <<request, results>> /\ UNCHANGED <<now, source, suppressor, store>>
  BY DEF CheckParent
<1> DEFINE path == TopologyPath(job[r][i].info)
           next == job[r][i].depth + 1
<1>4. ParentCount(path) \in Int /\ ParentCount(path) <= 2
  BY <1>2, AtMostTwoParents
<1>5. \/ Goto(r, i, "downstreams")
      \/ \E g \in SuppressingParents(Fp(r, i), path[next]) : Decide(r, i, g)
      \/ /\ next <= ParentCount(path)
         /\ job' = [job EXCEPT ![r][i].depth = next,
              ![r][i].phase = IF next = ParentCount(path) THEN "downstreams" ELSE @]
  BY DEF CheckParent
<1> HIDE DEF path, next
<1>6. \E x \in Job : /\ job' = [job EXCEPT ![r][i] = x]
                     /\ x.phase \in Working /\ Carries(x)
  <2>1. CASE Goto(r, i, "downstreams")
    <3> DEFINE x == [job[r][i] EXCEPT !.phase = "downstreams"]
    <3>1. job' = [job EXCEPT ![r][i] = x]
      BY <1>2, <2>1 DEF Goto
    <3>2. x \in Job /\ x.phase \in Working /\ Carries(x)
      BY <1>1, <1>2 DEF Job, JobPhases, Working, Carries
    <3>3. QED
      BY <3>1, <3>2
  <2>2. CASE \E g \in SuppressingParents(Fp(r, i), path[next]) : Decide(r, i, g)
    <3>1. PICK g \in Alerts : Decide(r, i, g)
      BY <2>2 DEF SuppressingParents, ParentAlerts
    <3> DEFINE x == [job[r][i] EXCEPT !.phase = "save", !.by = g]
    <3>2. job' = [job EXCEPT ![r][i] = x]
      BY <1>2, <3>1 DEF Decide
    <3>3. x \in Job /\ x.phase \in Working /\ Carries(x)
      BY <1>1, <1>2 DEF Job, JobPhases, Working, Carries
    <3>4. QED
      BY <3>2, <3>3
  <2>3. CASE /\ next <= ParentCount(path)
             /\ job' = [job EXCEPT ![r][i].depth = next,
                  ![r][i].phase = IF next = ParentCount(path) THEN "downstreams" ELSE @]
    <3> DEFINE x == [job[r][i] EXCEPT !.depth = next,
                       !.phase = IF next = ParentCount(path) THEN "downstreams" ELSE "parents"]
    <3>1. job' = [job EXCEPT ![r][i] = x]
      BY <1>1, <1>2, <2>3
    <3>2. next \in 0..3
      BY <1>2, <1>4, <2>3 DEF Job, next
    <3>3. x \in Job /\ x.phase \in Working /\ Carries(x)
      BY <1>1, <1>2, <3>2 DEF Job, JobPhases, Working, Carries
    <3>4. QED
      BY <3>1, <3>3
  <2>4. QED
    BY <1>5, <2>1, <2>2, <2>3
<1>7. WorkersInv'
  BY <1>1, <1>3, <1>6, WorkerGoesOn DEF Working
<1>8. QED
  BY <1>1, <1>3, <1>7 DEF TypeInv, SharedInv, suppressor

\* The check of the callees keeps the types.
LEMMA CheckDownstreamsTypes ==
  ASSUME TypeInv, NEW r \in Requests, NEW i \in Slots, CheckDownstreams(r, i)
  PROVE  TypeInv'
<1>1. WorkersInv /\ SharedInv /\ job[r][i].phase = "downstreams"
  BY DEF TypeInv, CheckDownstreams, At
<1>2. /\ Fp(r, i) \in Alerts /\ job[r][i] \in Job /\ Carries(job[r][i])
      /\ job[r][i].info \in EnrichedAlert /\ job \in [Requests -> [Slots -> Job]]
  BY <1>1, WorkerFacts DEF Carries, WorkersInv
<1>3. UNCHANGED <<request, results>> /\ UNCHANGED <<now, source, suppressor, store>>
  BY DEF CheckDownstreams
<1>4. FiringDownstreams(Fp(r, i), job[r][i].info) \subseteq Alerts
  <2> DEFINE e == job[r][i].info
  <2>1. \A d \in e.downs : <<d, e.ns>> \in Apps \X Namespaces
    BY <1>2 DEF EnrichedAlert
  <2>2. index \in [Apps \X Namespaces -> SUBSET Alerts]
    BY <1>1 DEF SharedInv
  <2>3. \A d \in e.downs : index[<<d, e.ns>>] \subseteq Alerts
    BY <2>1, <2>2
  <2>4. QED
    BY <2>3 DEF FiringDownstreams
<1>5. \E x \in Job : /\ job' = [job EXCEPT ![r][i] = x]
                     /\ x.phase \in Working /\ Carries(x)
  <2>1. CASE Goto(r, i, "save")
    <3> DEFINE x == [job[r][i] EXCEPT !.phase = "save"]
    <3>1. job' = [job EXCEPT ![r][i] = x]
      BY <1>2, <2>1 DEF Goto
    <3>2. x \in Job /\ x.phase \in Working /\ Carries(x)
      BY <1>1, <1>2 DEF Job, JobPhases, Working, Carries
    <3>3. QED
      BY <3>1, <3>2
  <2>2. ASSUME NEW g \in FiringDownstreams(Fp(r, i), job[r][i].info), Decide(r, i, g)
        PROVE  \E x \in Job : /\ job' = [job EXCEPT ![r][i] = x]
                              /\ x.phase \in Working /\ Carries(x)
    <3> DEFINE x == [job[r][i] EXCEPT !.phase = "save", !.by = g]
    <3>1. job' = [job EXCEPT ![r][i] = x] /\ g \in Alerts
      BY <1>2, <1>4, <2>2 DEF Decide
    <3>2. x \in Job /\ x.phase \in Working /\ Carries(x)
      BY <1>1, <1>2, <3>1 DEF Job, JobPhases, Working, Carries
    <3>3. QED
      BY <3>1, <3>2
  <2>3. QED
    BY <2>1, <2>2 DEF CheckDownstreams
<1>6. WorkersInv'
  BY <1>1, <1>3, <1>5, WorkerGoesOn DEF Working
<1>7. QED
  BY <1>1, <1>3, <1>6 DEF TypeInv, SharedInv, suppressor

\* Saving keeps the types.
LEMMA SaveTypes ==
  ASSUME TypeInv, NEW r \in Requests, NEW i \in Slots, Save(r, i)
  PROVE  TypeInv'
<1>1. WorkersInv /\ SharedInv /\ job[r][i].phase = "save"
  BY DEF TypeInv, Save, At
<1>2. /\ Fp(r, i) \in Alerts /\ The(r, i) \in Item /\ job[r][i] \in Job
      /\ Carries(job[r][i]) /\ job \in [Requests -> [Slots -> Job]]
  BY <1>1, WorkerFacts DEF WorkersInv
<1>3. UNCHANGED <<request, results>> /\ UNCHANGED <<now, source, suppressor>>
      /\ Goto(r, i, "notify")
  BY DEF Save
<1>4. store' \in [Alerts -> Row]
  <2>1. [status |-> The(r, i).status, start |-> The(r, i).start, by |-> job[r][i].by] \in Row
    BY <1>2 DEF Row, Item, Job
  <2>2. QED
    BY <1>1, <2>1 DEF Save, SharedInv
<1>5. WorkersInv'
  <2> DEFINE x == [job[r][i] EXCEPT !.phase = "notify"]
  <2>1. job' = [job EXCEPT ![r][i] = x]
    BY <1>2, <1>3 DEF Goto
  <2>2. x \in Job /\ x.phase \in Working /\ Carries(x)
    BY <1>1, <1>2 DEF Job, JobPhases, Working, Carries
  <2> HIDE DEF x
  <2>3. QED
    BY <1>1, <1>3, <2>1, <2>2, WorkerGoesOn DEF Working
<1>6. QED
  BY <1>1, <1>3, <1>4, <1>5 DEF TypeInv, SharedInv, suppressor

\* A worker that ends, by itself or by a panic, keeps the types.
LEMMA EndTypes ==
  ASSUME TypeInv, NEW r \in Requests, NEW i \in Slots, Deliver(r, i) \/ Panic(r, i)
  PROVE  TypeInv'
<1>1. WorkersInv /\ SharedInv /\ job[r][i].phase \in Working
  BY DEF TypeInv, Deliver, Panic, At, Working
<1>2. Fp(r, i) \in Alerts
  BY <1>1, WorkerFacts DEF Working
<1>3. 1 \in Slots
  BY ConstantsAssumption DEF Slots
<1>4. \E res \in Result : results' = [results EXCEPT ![r] = Append(@, res)]
  <2>1. CASE Deliver(r, i)
    <3>1. [index |-> 1, alert |-> Fp(r, i)] \in Result
      BY <1>2, <1>3 DEF Result
    <3>2. QED
      BY <2>1, <3>1 DEF Deliver
  <2>2. CASE Panic(r, i)
    <3>1. [index |-> i, alert |-> Fp(r, i)] \in Result
      BY <1>2 DEF Result
    <3>2. QED
      BY <2>2, <3>1 DEF Panic
  <2>3. QED
    BY <2>1, <2>2
<1>5. /\ job' = [job EXCEPT ![r][i] = [NoJob EXCEPT !.phase = "done"]]
      /\ UNCHANGED <<now, source, request, suppressor, store>>
  BY DEF Deliver, Panic
<1>6. WorkersInv'
  BY <1>1, <1>4, <1>5, WorkerEnds
<1>7. QED
  BY <1>1, <1>5, <1>6 DEF TypeInv, SharedInv, suppressor

\* Alertmanager and the clock keep the types.
LEMMA SourceTypes ==
  ASSUME TypeInv, Tick \/ \E f \in Alerts : Fire(f) \/ Resolve(f)
  PROVE  TypeInv'
<1>1. WorkersInv /\ SharedInv
  BY DEF TypeInv
<1>2. UNCHANGED <<request, job, results, active, index, lastCleanup, store>>
  BY DEF Tick, Fire, Resolve, suppressor
<1>3. WorkersInv'
  <2>1. \A r \in Requests : Running(r)' = Running(r)
    BY <1>2 DEF Running
  <2>2. ASSUME NEW r \in Requests PROVE Progress(r)'
    <3>1. Progress(r) /\ Running(r)' = Running(r)
      BY <1>1, <2>1 DEF WorkersInv
    <3>2. QED
      BY <1>2, <3>1 DEF Progress
  <2>3. QED
    BY <1>1, <1>2, <2>2 DEF WorkersInv, Carries
<1>4. now' \in 0..Horizon
  <2>1. Horizon \in Nat
    BY ConstantsAssumption
  <2>2. QED
    BY <1>1, <2>1 DEF Tick, Fire, Resolve, SharedInv
<1>5. source' \in [Alerts -> [is: Event, told: Event, shared: BOOLEAN]]
  <2>1. CASE Tick
    BY <1>1, <2>1 DEF Tick, SharedInv
  <2>2. ASSUME NEW f \in Alerts, Fire(f)
        PROVE  source' \in [Alerts -> [is: Event, told: Event, shared: BOOLEAN]]
    <3>1. [status |-> "firing", start |-> now] \in Event
      BY <1>1 DEF Event, Statuses, SharedInv
    <3>2. QED
      BY <1>1, <2>2, <3>1 DEF Fire, SharedInv
  <2>3. ASSUME NEW f \in Alerts, Resolve(f)
        PROVE  source' \in [Alerts -> [is: Event, told: Event, shared: BOOLEAN]]
    <3>1. [source[f].is EXCEPT !.status = "resolved"] \in Event
      BY <1>1 DEF Event, Statuses, SharedInv
    <3>2. source' = [source EXCEPT ![f] =
             [source[f] EXCEPT !.is = [source[f].is EXCEPT !.status = "resolved"]]]
      BY <1>1, <2>3 DEF Resolve, SharedInv
    <3>3. QED
      BY <1>1, <3>1, <3>2 DEF SharedInv
  <2>4. QED
    BY <2>1, <2>2, <2>3
<1>6. QED
  BY <1>1, <1>2, <1>3, <1>4, <1>5 DEF TypeInv, SharedInv

\* Requests that are posted, spawned and collected keep the types.
LEMMA RequestTypes ==
  ASSUME TypeInv, NEW r \in Requests,
         \/ \E n \in Slots : \E group \in [1..n -> Alerts] : Send(r, group)
         \/ Spawn(r) \/ Collect(r)
  PROVE  TypeInv'
<1>1. WorkersInv /\ SharedInv
  BY DEF TypeInv
<1>2. ASSUME NEW n \in Slots, NEW group \in [1..n -> Alerts], Send(r, group)
      PROVE  TypeInv'
  <2>1. WorkersInv'
    BY <1>2, SendWorkers
  <2>2. source' \in [Alerts -> [is: Event, told: Event, shared: BOOLEAN]]
    <3>1. \A f \in Alerts : source[f] \in [is: Event, told: Event, shared: BOOLEAN]
                            /\ InFlight(f) \in BOOLEAN
      BY <1>1 DEF SharedInv, InFlight
    <3>2. \A f \in Alerts : [source[f] EXCEPT !.told = source[f].is, !.shared = InFlight(f)]
            \in [is: Event, told: Event, shared: BOOLEAN]
      BY <3>1
    <3>3. QED
      BY <1>2, <3>1, <3>2 DEF Send
  <2>3. UNCHANGED <<now, suppressor, store>>
    BY <1>2 DEF Send
  <2>4. QED
    BY <1>1, <2>1, <2>2, <2>3 DEF TypeInv, SharedInv, suppressor
<1>3. ASSUME Spawn(r) PROVE TypeInv'
  <2>1. WorkersInv' /\ UNCHANGED <<now, source, suppressor, store>>
    BY <1>1, <1>3, SpawnWorkers DEF Spawn
  <2>2. QED
    BY <1>1, <2>1 DEF TypeInv, SharedInv, suppressor
<1>4. ASSUME Collect(r) PROVE TypeInv'
  <2>1. WorkersInv' /\ UNCHANGED <<now, source, suppressor, store>>
    BY <1>1, <1>4, CollectWorkers DEF Collect
  <2>2. QED
    BY <1>1, <2>1 DEF TypeInv, SharedInv, suppressor
<1>5. QED
  BY <1>2, <1>3, <1>4

LEMMA TypesInit == Init => TypeInv
<1> SUFFICES ASSUME Init PROVE TypeInv
  OBVIOUS
<1>1. Never \in Event
  BY ConstantsAssumption DEF Never, Event
<1>2. NoRow \in Row
  BY ConstantsAssumption DEF NoRow, Row
<1>3. now \in 0..Horizon /\ lastCleanup \in Int
  BY ConstantsAssumption DEF Init
<1>4. source \in [Alerts -> [is: Event, told: Event, shared: BOOLEAN]]
  BY <1>1 DEF Init
<1>5. SharedInv
  BY <1>2, <1>3, <1>4 DEF Init, SharedInv
<1>6. QED
  BY <1>5, WorkersInit DEF TypeInv

LEMMA TypesNext == TypeInv /\ [Next]_vars => TypeInv'
<1> SUFFICES ASSUME TypeInv, [Next]_vars PROVE TypeInv'
  OBVIOUS
<1>1. CASE Tick \/ \E f \in Alerts : Fire(f) \/ Resolve(f)
  BY <1>1, SourceTypes
<1>2. ASSUME NEW r \in Requests, NEW n \in Slots, NEW group \in [1..n -> Alerts],
             Send(r, group)
      PROVE  TypeInv'
  BY <1>2, RequestTypes
<1>3. ASSUME NEW r \in Requests, Spawn(r) \/ Collect(r)
      PROVE  TypeInv'
  BY <1>3, RequestTypes
<1>4. ASSUME NEW r \in Requests, NEW i \in Slots, WorkerStep(r, i) \/ Panic(r, i)
      PROVE  TypeInv'
  BY <1>4, RegisterTypes, CheckParentTypes, CheckDownstreamsTypes, SaveTypes, EndTypes
     DEF WorkerStep
<1>5. CASE UNCHANGED vars
  <2>1. \A r \in Requests : Running(r)' = Running(r)
    BY <1>5 DEF vars, Running
  <2>2. ASSUME NEW r \in Requests PROVE Progress(r)'
    <3>1. Progress(r) /\ Running(r)' = Running(r)
      BY <2>1 DEF TypeInv, WorkersInv
    <3>2. QED
      BY <1>5, <3>1 DEF Progress, vars
  <2>3. QED
    BY <1>5, <2>2 DEF vars, TypeInv, WorkersInv, SharedInv, Carries, suppressor
<1>6. QED
  BY <1>1, <1>2, <1>3, <1>4, <1>5 DEF Next

\* Every variable keeps its type; each worker of a request is running, waiting
\* in the channel or collected, and never more run than the pool allows.
THEOREM TypeCorrect == Spec => []TypeOK
<1>1. Spec => []TypeInv
  BY TypesInit, TypesNext, PTL DEF Spec
<1>2. QED
  BY <1>1, TypesHold, PTL

-----------------------------------------------------------------------------
(* The reply.                                                              *)

\* A request whose results are all collected has no worker left.
LEMMA CollectedMeansIdle ==
  ASSUME WorkersInv, NEW r \in Requests, request[r].phase = "done"
  PROVE  /\ \A i \in DOMAIN request[r].items : job[r][i].phase = "done"
         /\ results[r] = <<>>
<1>1. /\ Progress(r) /\ request[r] \in Request /\ results[r] \in Seq(Result)
      /\ job \in [Requests -> [Slots -> Job]]
  BY DEF WorkersInv
<1>2. /\ IsFiniteSet(Running(r)) /\ Cardinality(Running(r)) \in Nat
      /\ Len(results[r]) \in Nat
      /\ Len(request[r].items) \in Nat
  BY <1>1, RunningFinite, LenProperties DEF Request
<1>3. /\ Cardinality(Running(r)) + Len(results[r]) + request[r].got = request[r].spawned
      /\ request[r].spawned = Len(request[r].items) /\ request[r].got = Len(request[r].items)
  BY <1>1 DEF Progress
<1>4. Cardinality(Running(r)) = 0 /\ Len(results[r]) = 0
  <2>1. PICK a, b, c \in Nat : /\ a = Cardinality(Running(r)) /\ b = Len(results[r])
                               /\ c = Len(request[r].items)
    BY <1>2, Zenon
  <2>2. a + b + c = c
    BY <1>3, <2>1, Zenon
  <2>3. a = 0 /\ b = 0
    BY <2>2
  <2>4. QED
    BY <2>1, <2>3, Zenon
<1>5. Running(r) = {}
  BY <1>2, <1>4, FS_EmptySet
<1>6. results[r] = <<>>
  BY <1>1, <1>4, EmptySeq
<1>7. ASSUME NEW i \in DOMAIN request[r].items PROVE job[r][i].phase = "done"
  <2>1. i \in 1..Len(request[r].items)
    BY <1>1, LenProperties DEF Request
  <2>2. i \in Slots /\ i <= request[r].spawned
    <3>1. Len(request[r].items) <= MaxBatch /\ MaxBatch \in Nat
      BY <1>1, ConstantsAssumption DEF Progress
    <3>2. QED
      BY <1>2, <1>3, <2>1, <3>1 DEF Slots
  <2>3. job[r][i].phase # "idle" /\ i \notin Running(r)
    BY <1>1, <1>5, <2>2 DEF Progress
  <2>4. QED
    BY <2>2, <2>3 DEF Running
<1>8. QED
  BY <1>6, <1>7

\* Process returns only when no worker of the request is left.
THEOREM NoWorkerEverOutlivesReply == Spec => []NoWorkerOutlivesReply
<1>1. TypeInv => NoWorkerOutlivesReply
  BY CollectedMeansIdle DEF TypeInv, NoWorkerOutlivesReply
<1>2. Spec => []TypeInv
  BY TypesInit, TypesNext, PTL DEF Spec
<1>3. QED
  BY <1>1, <1>2, PTL

-----------------------------------------------------------------------------
(* Who may be blamed for a suppression.                                    *)

\* Everything the suppressor looks at was reported to it: the alerts that requests
\* carry, the registered ones, and those in the entries of the applications.
ReportedInv ==
  /\ \A r \in Requests : request[r].phase # "idle" =>
       \A i \in DOMAIN request[r].items : source[request[r].items[i].alert].told # Never
  /\ \A f \in Alerts : active[f] # NotActive => source[f].told # Never
  /\ \A k \in Apps \X Namespaces : \A f \in index[k] : source[f].told # Never

\* What each action leaves alone.
LEMMA Frames ==
  /\ Tick => UNCHANGED <<source, request, job, results, active, index, lastCleanup, store>>
  /\ \A f \in Alerts : Fire(f) \/ Resolve(f) =>
       UNCHANGED <<now, request, job, results, active, index, lastCleanup, store>>
  /\ \A r \in Requests, n \in Slots : \A group \in [1..n -> Alerts] : Send(r, group) =>
       UNCHANGED <<now, job, results, active, index, lastCleanup, store>>
  /\ \A r \in Requests : Spawn(r) =>
       UNCHANGED <<now, source, results, active, index, lastCleanup, store>>
  /\ \A r \in Requests : Collect(r) =>
       UNCHANGED <<now, source, job, active, index, lastCleanup, store>>
  /\ \A r \in Requests, i \in Slots :
       /\ Register(r, i) => UNCHANGED <<now, source, request, results, store>>
       /\ CheckParent(r, i) \/ CheckDownstreams(r, i) =>
            UNCHANGED <<now, source, request, results, active, index, lastCleanup, store>>
       /\ Save(r, i) =>
            UNCHANGED <<now, source, request, results, active, index, lastCleanup>>
       /\ Deliver(r, i) \/ Panic(r, i) =>
            UNCHANGED <<now, source, request, active, index, lastCleanup, store>>
  /\ UNCHANGED vars => UNCHANGED <<now, source, request, job, results, active, index,
                                   lastCleanup, store>>
<1>1. /\ Tick => UNCHANGED <<source, request, job, results, active, index, lastCleanup, store>>
      /\ \A f \in Alerts : Fire(f) \/ Resolve(f) =>
           UNCHANGED <<now, request, job, results, active, index, lastCleanup, store>>
  BY DEF Tick, Fire, Resolve, suppressor
<1>2. \A r \in Requests, n \in Slots : \A group \in [1..n -> Alerts] : Send(r, group) =>
        UNCHANGED <<now, job, results, active, index, lastCleanup, store>>
  BY DEF Send, suppressor
<1>3. \A r \in Requests : Spawn(r) =>
        UNCHANGED <<now, source, results, active, index, lastCleanup, store>>
  BY DEF Spawn, suppressor
<1>4. \A r \in Requests : Collect(r) =>
        UNCHANGED <<now, source, job, active, index, lastCleanup, store>>
  BY DEF Collect, suppressor
<1>5. ASSUME NEW r \in Requests, NEW i \in Slots
      PROVE  /\ Register(r, i) => UNCHANGED <<now, source, request, results, store>>
             /\ CheckParent(r, i) \/ CheckDownstreams(r, i) => UNCHANGED
                  <<now, source, request, results, active, index, lastCleanup, store>>
             /\ Save(r, i) =>
                  UNCHANGED <<now, source, request, results, active, index, lastCleanup>>
             /\ Deliver(r, i) \/ Panic(r, i) =>
                  UNCHANGED <<now, source, request, active, index, lastCleanup, store>>
  BY DEF Register, CheckParent, CheckDownstreams, Save, Deliver, Panic, suppressor
<1>6. UNCHANGED vars => UNCHANGED <<now, source, request, job, results, active, index,
                                    lastCleanup, store>>
  BY DEF vars, suppressor
<1>7. QED
  BY <1>1, <1>2, <1>3, <1>4, <1>5, <1>6

\* What posting a request does: it now carries the group, and what it carries of
\* an alert is what was last told of it.
Posted(r, n, group) ==
  /\ request[r].phase = "idle" /\ request'[r].phase = "spawn"
  /\ \A q \in Requests \ {r} : request'[q] = request[q]
  /\ DOMAIN request'[r].items = 1..n
  /\ \A i \in 1..n :
       /\ group[i] \in Alerts /\ request'[r].items[i].alert = group[i]
       /\ request'[r].items[i].status = source[group[i]].is.status
       /\ request'[r].items[i].start = source[group[i]].is.start
       /\ source[group[i]].is.status # "none"
       /\ source'[group[i]].told = source[group[i]].is
       /\ source'[group[i]].shared = InFlight(group[i])
  /\ \A f \in Alerts : (\A i \in 1..n : group[i] # f) => source'[f] = source[f]

LEMMA SendEffects ==
  ASSUME TypeInv, NEW r \in Requests, NEW n \in Slots, NEW group \in [1..n -> Alerts],
         Send(r, group)
  PROVE  Posted(r, n, group)
<1>1. /\ source \in [Alerts -> [is: Event, told: Event, shared: BOOLEAN]]
      /\ request \in [Requests -> Request]
  BY DEF TypeInv, SharedInv, WorkersInv
<1>2. DOMAIN group = 1..n /\ \A i \in 1..n : group[i] \in Alerts
  OBVIOUS
<1>3. \A f \in Alerts : source'[f] =
        IF \E i \in DOMAIN group : group[i] = f
        THEN [source[f] EXCEPT !.told = source[f].is, !.shared = InFlight(f)]
        ELSE source[f]
  BY DEF Send
<1>4. ASSUME NEW i \in 1..n
      PROVE  /\ source[group[i]].is.status # "none"
             /\ source'[group[i]].told = source[group[i]].is
             /\ source'[group[i]].shared = InFlight(group[i])
  <2>1. group[i] \in Alerts /\ i \in DOMAIN group
    BY <1>2
  <2>2. source'[group[i]] =
          [source[group[i]] EXCEPT !.told = source[group[i]].is, !.shared = InFlight(group[i])]
    BY <1>3, <2>1
  <2>3. source[group[i]] \in [is: Event, told: Event, shared: BOOLEAN]
    BY <1>1, <2>1
  <2>4. QED
    BY <2>1, <2>2, <2>3 DEF Send
<1>5. \A f \in Alerts : (\A i \in 1..n : group[i] # f) => source'[f] = source[f]
  BY <1>2, <1>3
<1>6. request' = [request EXCEPT ![r].phase = "spawn",
        ![r].items = [i \in DOMAIN group |->
          [alert |-> group[i], status |-> source[group[i]].is.status,
           start |-> source[group[i]].is.start]]]
  BY DEF Send
<1>7. /\ request[r].phase = "idle" /\ request'[r].phase = "spawn"
      /\ \A q \in Requests \ {r} : request'[q] = request[q]
      /\ request'[r].items = [i \in DOMAIN group |->
          [alert |-> group[i], status |-> source[group[i]].is.status,
           start |-> source[group[i]].is.start]]
  BY <1>1, <1>6 DEF Send, Request
<1>8. QED
  BY <1>2, <1>4, <1>5, <1>7 DEF Posted

\* The step of one worker leaves every other worker and every request alone.
LEMMA OtherWorkers ==
  ASSUME WorkersInv, NEW r \in Requests, NEW i \in Slots,
         NEW q \in Requests, NEW k \in Slots, ~ (r = q /\ i = k),
         WorkerStep(r, i) \/ Panic(r, i)
  PROVE  job'[q][k] = job[q][k] /\ UNCHANGED request
<1>1. job \in [Requests -> [Slots -> Job]]
  BY DEF WorkersInv
<1>2. UNCHANGED request
  BY Frames DEF WorkerStep
<1>3. CASE Register(r, i)
  BY <1>1, <1>3 DEF Register
<1>4. CASE CheckParent(r, i)
  BY <1>1, <1>4 DEF CheckParent, Goto, Decide
<1>5. CASE CheckDownstreams(r, i)
  BY <1>1, <1>5 DEF CheckDownstreams, Goto, Decide
<1>6. CASE Save(r, i)
  BY <1>1, <1>6 DEF Save, Goto
<1>7. CASE Deliver(r, i)
  BY <1>1, <1>7 DEF Deliver
<1>8. CASE Panic(r, i)
  BY <1>1, <1>8 DEF Panic
<1>9. QED
  BY <1>2, <1>3, <1>4, <1>5, <1>6, <1>7, <1>8 DEF WorkerStep

\* What was told of an alert is never untold.
LEMMA ToldStays ==
  ASSUME TypeInv, [Next]_vars, NEW f \in Alerts, source[f].told # Never
  PROVE  source'[f].told # Never
<1>1. source \in [Alerts -> [is: Event, told: Event, shared: BOOLEAN]]
  BY DEF TypeInv, SharedInv
<1>2. CASE UNCHANGED source
  BY <1>2
<1>3. ASSUME NEW g \in Alerts, Fire(g) \/ Resolve(g) PROVE source'[f].told # Never
  BY <1>1, <1>3 DEF Fire, Resolve
<1>4. ASSUME NEW r \in Requests, NEW n \in Slots, NEW group \in [1..n -> Alerts],
             Send(r, group)
      PROVE  source'[f].told # Never
  <2>1. CASE \E i \in DOMAIN group : group[i] = f
    <3>1. source[f].is.status # "none" /\ source'[f].told = source[f].is
      BY <1>1, <1>4, <2>1 DEF Send
    <3>2. QED
      BY <3>1 DEF Never
  <2>2. CASE ~ \E i \in DOMAIN group : group[i] = f
    BY <1>1, <1>4, <2>2 DEF Send
  <2>3. QED
    BY <2>1, <2>2
<1>5. \/ UNCHANGED source
      \/ \E g \in Alerts : Fire(g) \/ Resolve(g)
      \/ \E r \in Requests, n \in Slots : \E group \in [1..n -> Alerts] : Send(r, group)
  BY Frames DEF Next, WorkerStep
<1>6. QED
  BY <1>2, <1>3, <1>4, <1>5

\* The alerts of a request that is posted have been told of.
LEMMA SendReports ==
  ASSUME TypeInv, ReportedInv, NEW r \in Requests, NEW n \in Slots,
         NEW group \in [1..n -> Alerts], Send(r, group)
  PROVE  \A q \in Requests : request'[q].phase # "idle" =>
           \A i \in DOMAIN request'[q].items :
             source'[request'[q].items[i].alert].told # Never
<1>1. /\ source \in [Alerts -> [is: Event, told: Event, shared: BOOLEAN]]
      /\ request \in [Requests -> Request]
  BY DEF TypeInv, SharedInv, WorkersInv
<1>2. /\ DOMAIN request'[r].items = 1..n
      /\ \A j \in 1..n : /\ request'[r].items[j].alert = group[j]
                         /\ source[group[j]].is.status # "none"
                         /\ source'[group[j]].told = source[group[j]].is
  <2>1. Posted(r, n, group)
    BY SendEffects
  <2>2. QED
    BY <2>1 DEF Posted
<1>3. ASSUME NEW i \in DOMAIN request'[r].items
      PROVE  source'[request'[r].items[i].alert].told # Never
  <2>1. DOMAIN request'[r].items = 1..n
    BY <1>2
  <2>2. PICK j \in 1..n : j = i
    BY <1>3, <2>1
  <2>3. /\ request'[r].items[j].alert = group[j]
        /\ source[group[j]].is.status # "none"
        /\ source'[group[j]].told = source[group[j]].is
    BY <1>2
  <2>4. QED
    BY <2>2, <2>3 DEF Never
<1>4. ASSUME NEW q \in Requests, q # r, request'[q].phase # "idle",
             NEW i \in DOMAIN request'[q].items
      PROVE  source'[request'[q].items[i].alert].told # Never
  <2>1. request'[q] = request[q]
    BY <1>1, <1>4 DEF Send
  <2>2. request[q].items[i].alert \in Alerts
    <3>1. request[q].items \in Seq(Item) /\ i \in DOMAIN request[q].items
      BY <1>1, <1>4, <2>1 DEF Request
    <3>2. request[q].items[i] \in Item
      BY <3>1
    <3>3. QED
      BY <3>2 DEF Item
  <2>3. source[request[q].items[i].alert].told # Never
    BY <1>4, <2>1 DEF ReportedInv
  <2>4. [Next]_vars
    BY DEF Next
  <2>5. QED
    BY <2>1, <2>2, <2>3, <2>4, ToldStays
<1>5. QED
  BY <1>3, <1>4

\* What the requests carry, the registry holds and the index lists stays told of.
LEMMA ReportedNext == TypeInv /\ ReportedInv /\ [Next]_vars => ReportedInv'
<1> SUFFICES ASSUME TypeInv, ReportedInv, [Next]_vars PROVE ReportedInv'
  OBVIOUS
<1>1. /\ source \in [Alerts -> [is: Event, told: Event, shared: BOOLEAN]]
      /\ request \in [Requests -> Request] /\ WorkersInv
      /\ active \in [Alerts -> Registered \cup {NotActive}]
      /\ index \in [Apps \X Namespaces -> SUBSET Alerts]
  BY DEF TypeInv, SharedInv, WorkersInv
<1>2. \A f \in Alerts : source[f].told # Never => source'[f].told # Never
  BY ToldStays
<1>3. \A q \in Requests : \A i \in DOMAIN request[q].items :
        request[q].items[i].alert \in Alerts
  <2>1. ASSUME NEW q \in Requests, NEW i \in DOMAIN request[q].items
        PROVE  request[q].items[i].alert \in Alerts
    <3>1. request[q].items \in Seq(Item)
      BY <1>1 DEF Request
    <3>2. request[q].items[i] \in Item
      BY <3>1
    <3>3. QED
      BY <3>2 DEF Item
  <2>2. QED
    BY <2>1
<1> DEFINE CarriedWereToldOf ==
      \A q \in Requests : request'[q].phase # "idle" =>
        \A i \in DOMAIN request'[q].items : source'[request'[q].items[i].alert].told # Never
<1>4. CarriedWereToldOf
  <2>1. ASSUME NEW r \in Requests, NEW n \in Slots, NEW group \in [1..n -> Alerts],
               Send(r, group)
        PROVE  CarriedWereToldOf
    BY <2>1, SendReports
  <2>2. ASSUME \A q \in Requests : /\ request'[q].items = request[q].items
                                   /\ request[q].phase = "idle" => request'[q].phase = "idle"
        PROVE  CarriedWereToldOf
    BY <1>2, <1>3, <2>2 DEF ReportedInv
  <2>3. ASSUME NEW r \in Requests, Spawn(r) \/ Collect(r)
        PROVE  \A q \in Requests : /\ request'[q].items = request[q].items
                                   /\ request[q].phase = "idle" => request'[q].phase = "idle"
    <3>1. \A q \in Requests \ {r} : request'[q] = request[q]
      BY <1>1, <2>3 DEF Spawn, Collect
    <3>2. request'[r].items = request[r].items /\ request[r].phase # "idle"
      <4>1. request[r] \in Request
        BY <1>1
      <4>2. CASE Spawn(r)
        BY <1>1, <4>1, <4>2 DEF Spawn, Request
      <4>3. CASE Collect(r)
        BY <1>1, <4>1, <4>3 DEF Collect, Request
      <4>4. QED
        BY <2>3, <4>2, <4>3
    <3>3. QED
      BY <3>1, <3>2
  <2>4. ASSUME UNCHANGED request
        PROVE  \A q \in Requests : /\ request'[q].items = request[q].items
                                   /\ request[q].phase = "idle" => request'[q].phase = "idle"
    BY <2>4
  <2>5. \/ UNCHANGED request
        \/ \E r \in Requests : Spawn(r) \/ Collect(r)
        \/ \E r \in Requests, n \in Slots : \E group \in [1..n -> Alerts] : Send(r, group)
    BY Frames DEF Next, WorkerStep
  <2>6. QED
    BY <2>1, <2>2, <2>3, <2>4, <2>5
<1>5. ASSUME NEW r \in Requests, NEW i \in Slots, Register(r, i)
      PROVE  /\ \A f \in Alerts : active'[f] # NotActive => source'[f].told # Never
             /\ \A k \in Apps \X Namespaces : \A f \in index'[k] : source'[f].told # Never
  <2>1. /\ i \in DOMAIN request[r].items /\ Fp(r, i) \in Alerts
        /\ request[r].phase # "idle"
    BY <1>1, <1>5, WorkerFacts DEF Register, At
  <2>2. source[Fp(r, i)].told # Never
    BY <2>1 DEF ReportedInv, Fp
  <2>3. PICK e : /\ active' = [Evicted(active) EXCEPT ![Fp(r, i)] =
                       IF The(r, i).status = "firing"
                       THEN [info |-> e, start |-> The(r, i).start] ELSE NotActive]
                 /\ index' = Indexed(Fp(r, i), The(r, i).status, e)
    BY <1>5 DEF Register
  <2>4. \A f \in Alerts \ {Fp(r, i)} : active'[f] # NotActive => active[f] # NotActive
    BY <1>1, <2>3 DEF Evicted
  <2>5. \A k \in Apps \X Namespaces : index'[k] \subseteq index[k] \cup {Fp(r, i)}
    BY <1>1, <2>3 DEF Indexed
  <2>6. \A f \in Alerts : active'[f] # NotActive => source'[f].told # Never
    BY <1>2, <2>1, <2>2, <2>4 DEF ReportedInv
  <2>7. \A k \in Apps \X Namespaces : \A f \in index'[k] : source'[f].told # Never
    BY <1>1, <1>2, <2>1, <2>2, <2>5 DEF ReportedInv
  <2>8. QED
    BY <2>6, <2>7
<1>6. ASSUME UNCHANGED <<active, index>>
      PROVE  /\ \A f \in Alerts : active'[f] # NotActive => source'[f].told # Never
             /\ \A k \in Apps \X Namespaces : \A f \in index'[k] : source'[f].told # Never
  BY <1>1, <1>2, <1>6 DEF ReportedInv
<1>7. \/ UNCHANGED <<active, index>>
      \/ \E r \in Requests, i \in Slots : Register(r, i)
  BY Frames DEF Next, WorkerStep
<1>8. QED
  BY <1>4, <1>5, <1>6, <1>7 DEF ReportedInv

\* The call chain check finds other alerts in the entries of what is called.
LEMMA DownstreamsFire ==
  ASSUME NEW f, NEW e, NEW g \in FiringDownstreams(f, e)
  PROVE  g # f /\ \E d \in e.downs : g \in index[<<d, e.ns>>]
<1>1. e.app # NoName
  BY DEF FiringDownstreams
<1>2. g \in (UNION {index[<<d, e.ns>>] : d \in e.downs}) \ {f}
  BY <1>1, Zenon DEF FiringDownstreams
<1>3. QED
  BY <1>2

\* Whoever a worker decides on is another alert that was told of.
LEMMA BlameNext ==
  TypeInv /\ ReportedInv /\ SuppressedByAnother /\ [Next]_vars => SuppressedByAnother'
<1> SUFFICES ASSUME TypeInv, ReportedInv, SuppressedByAnother, [Next]_vars,
                    NEW q \in Requests, NEW k \in Slots, job'[q][k].by # NoAlert
             PROVE  /\ job'[q][k].by # Fp(q, k)'
                    /\ source'[job'[q][k].by].told # Never
                    /\ ~ job'[q][k].info.exempt
  BY DEF SuppressedByAnother
<1>1. /\ job \in [Requests -> [Slots -> Job]] /\ WorkersInv /\ WorkersInv'
      /\ request \in [Requests -> Request]
  BY TypesNext DEF TypeInv, WorkersInv
<1>2. job[q][k] \in Job
  BY <1>1
<1>3. \A f \in Alerts : source[f].told # Never => source'[f].told # Never
  BY ToldStays
<1>4. ASSUME job'[q][k].by = job[q][k].by, job'[q][k].info = job[q][k].info,
             Fp(q, k)' = Fp(q, k)
      PROVE  /\ job'[q][k].by # Fp(q, k)'
             /\ source'[job'[q][k].by].told # Never
             /\ ~ job'[q][k].info.exempt
  <2>1. job[q][k].by \in Alerts
    BY <1>2, <1>4 DEF Job
  <2>2. QED
    BY <1>3, <1>4, <2>1 DEF SuppressedByAnother
<1>5. ASSUME NEW g \in Alerts, g # Fp(q, k), source[g].told # Never,
             job'[q][k].by = g, job'[q][k].info = job[q][k].info,
             ~ job[q][k].info.exempt, UNCHANGED request
      PROVE  /\ job'[q][k].by # Fp(q, k)'
             /\ source'[job'[q][k].by].told # Never
             /\ ~ job'[q][k].info.exempt
  BY <1>3, <1>5 DEF Fp
<1>6. ASSUME NEW r \in Requests, NEW i \in Slots, ~ (r = q /\ i = k),
             WorkerStep(r, i) \/ Panic(r, i)
      PROVE  /\ job'[q][k].by # Fp(q, k)'
             /\ source'[job'[q][k].by].told # Never
             /\ ~ job'[q][k].info.exempt
  <2>1. job'[q][k] = job[q][k] /\ UNCHANGED request
    BY <1>1, <1>6, OtherWorkers
  <2>2. QED
    BY <1>4, <2>1 DEF Fp
<1>7. CASE WorkerStep(q, k) \/ Panic(q, k)
  <2>1. Fp(q, k)' = Fp(q, k)
    BY <1>7 DEF WorkerStep, Register, CheckParent, CheckDownstreams, Save, Deliver,
       Panic, Fp
  <2>2. CASE Register(q, k)
    <3>1. job'[q][k].by = job[q][k].by
      BY <1>1, <2>2 DEF Register
    <3>2. job[q][k].by = NoAlert
      BY <1>1, <2>2 DEF Register, At, WorkersInv, Carries
    <3>3. QED
      BY <3>1, <3>2
  <2>3. CASE CheckParent(q, k)
    <3>1. ~ job[q][k].info.exempt
      BY <1>1, <2>3 DEF CheckParent, At, WorkersInv, Carries
    <3>2. CASE \E p : \E g \in SuppressingParents(Fp(q, k), p) : Decide(q, k, g)
      <4>1. PICK g \in Alerts \ {Fp(q, k)} : active[g] # NotActive /\ Decide(q, k, g)
        BY <3>2 DEF SuppressingParents, ParentAlerts
      <4>2. g \in Alerts /\ g # Fp(q, k) /\ active[g] # NotActive
        BY <4>1
      <4>3. source[g].told # Never
        BY <4>2 DEF ReportedInv
      <4>4. job'[q][k].by = g /\ job'[q][k].info = job[q][k].info
        BY <1>1, <1>2, <4>1 DEF Decide, Job
      <4>5. UNCHANGED request
        BY <2>3 DEF CheckParent
      <4>6. QED
        BY <1>5, <3>1, <4>2, <4>3, <4>4, <4>5
    <3>3. CASE job'[q][k].by = job[q][k].by /\ job'[q][k].info = job[q][k].info
      BY <1>4, <2>1, <3>3
    <3>4. ASSUME Goto(q, k, "downstreams")
          PROVE  job'[q][k].by = job[q][k].by /\ job'[q][k].info = job[q][k].info
      BY <1>1, <1>2, <3>4 DEF Goto, Job
    <3>5. ASSUME NEW d, NEW p,
                 job' = [job EXCEPT ![q][k].depth = d, ![q][k].phase = p]
          PROVE  job'[q][k].by = job[q][k].by /\ job'[q][k].info = job[q][k].info
      BY <1>1, <1>2, <3>5 DEF Job
    <3>6. \/ Goto(q, k, "downstreams")
          \/ \E p : \E g \in SuppressingParents(Fp(q, k), p) : Decide(q, k, g)
          \/ \E d, p : job' = [job EXCEPT ![q][k].depth = d, ![q][k].phase = p]
      BY <2>3 DEF CheckParent
    <3>7. QED
      BY <3>2, <3>3, <3>4, <3>5, <3>6
  <2>4. CASE CheckDownstreams(q, k)
    <3>1. ~ job[q][k].info.exempt /\ job[q][k].info \in EnrichedAlert
      BY <1>1, <2>4 DEF CheckDownstreams, At, WorkersInv, Carries
    <3>2. CASE Goto(q, k, "save")
      BY <1>1, <1>2, <1>4, <2>1, <3>2 DEF Goto, Job
    <3>3. ASSUME NEW g \in FiringDownstreams(Fp(q, k), job[q][k].info), Decide(q, k, g)
          PROVE  /\ job'[q][k].by # Fp(q, k)'
                 /\ source'[job'[q][k].by].told # Never
                 /\ ~ job'[q][k].info.exempt
      <4>1. PICK d \in job[q][k].info.downs : g \in index[<<d, job[q][k].info.ns>>]
        BY <3>3, DownstreamsFire
      <4>2. g # Fp(q, k)
        BY <3>3, DownstreamsFire
      <4>3. <<d, job[q][k].info.ns>> \in Apps \X Namespaces
        BY <3>1, <4>1 DEF EnrichedAlert
      <4>4. g \in Alerts /\ source[g].told # Never
        BY <4>1, <4>3 DEF ReportedInv, TypeInv, SharedInv
      <4>5. job'[q][k].by = g /\ job'[q][k].info = job[q][k].info
        BY <1>1, <1>2, <3>3 DEF Decide, Job
      <4>6. UNCHANGED request
        BY <2>4 DEF CheckDownstreams
      <4>7. QED
        BY <1>5, <3>1, <4>2, <4>4, <4>5, <4>6
    <3>4. QED
      BY <2>4, <3>2, <3>3 DEF CheckDownstreams
  <2>5. CASE Save(q, k)
    BY <1>1, <1>2, <1>4, <2>1, <2>5 DEF Save, Goto, Job
  <2>6. CASE Deliver(q, k) \/ Panic(q, k)
    <3>1. job'[q][k].by = NoAlert
      BY <1>1, <2>6 DEF Deliver, Panic, NoJob
    <3>2. QED
      BY <3>1
  <2>7. QED
    BY <1>7, <2>2, <2>3, <2>4, <2>5, <2>6 DEF WorkerStep
<1>8. ASSUME NEW r \in Requests, Spawn(r)
      PROVE  /\ job'[q][k].by # Fp(q, k)'
             /\ source'[job'[q][k].by].told # Never
             /\ ~ job'[q][k].info.exempt
  <2>1. job'[q][k].by = job[q][k].by /\ job'[q][k].info = job[q][k].info
    BY <1>1, <1>2, <1>8 DEF Spawn, Job
  <2>2. Fp(q, k)' = Fp(q, k)
    BY <1>1, <1>8 DEF Spawn, Fp, Request
  <2>3. QED
    BY <1>4, <2>1, <2>2
<1>9. ASSUME NEW r \in Requests, Collect(r)
      PROVE  /\ job'[q][k].by # Fp(q, k)'
             /\ source'[job'[q][k].by].told # Never
             /\ ~ job'[q][k].info.exempt
  <2>1. job'[q][k] = job[q][k]
    BY <1>9 DEF Collect
  <2>2. Fp(q, k)' = Fp(q, k)
    BY <1>1, <1>9 DEF Collect, Fp, Request
  <2>3. QED
    BY <1>4, <2>1, <2>2
<1>10. ASSUME NEW r \in Requests, NEW n \in Slots, NEW group \in [1..n -> Alerts],
              Send(r, group)
       PROVE  /\ job'[q][k].by # Fp(q, k)'
              /\ source'[job'[q][k].by].told # Never
              /\ ~ job'[q][k].info.exempt
  <2>1. job'[q][k] = job[q][k]
    BY <1>10 DEF Send
  <2>2. CASE q = r
    <3>1. job[q][k].phase = "idle"
      BY <1>1, <1>10, <2>2, WorkerFacts DEF Send
    <3>2. job[q][k].by = NoAlert
      BY <1>1, <3>1 DEF WorkersInv, Carries
    <3>3. QED
      BY <2>1, <3>2
  <2>3. CASE q # r
    BY <1>1, <1>4, <1>10, <2>1, <2>3 DEF Send, Fp
  <2>4. QED
    BY <2>2, <2>3
<1>11. CASE UNCHANGED <<job, request>>
  BY <1>4, <1>11 DEF Fp
<1>12. QED
  BY <1>4, <1>6, <1>7, <1>8, <1>9, <1>10, <1>11 DEF Next, vars, Tick, Fire, Resolve, Fp

LEMMA BlameInit == Init => ReportedInv /\ SuppressedByAnother
<1> SUFFICES ASSUME Init PROVE ReportedInv /\ SuppressedByAnother
  OBVIOUS
<1>1. ReportedInv
  BY DEF Init, ReportedInv, NewRequest
<1>2. \A r \in Requests, i \in Slots : job[r][i].by = NoAlert
  BY DEF Init, NoJob
<1>3. QED
  BY <1>1, <1>2 DEF SuppressedByAnother

\* An alert is only suppressed on account of another one that was reported, and
\* one of an excepted severity or criticality never is (suppressor.go).
THEOREM AlwaysSuppressedByAnother == Spec => []SuppressedByAnother
<1>1. Init => TypeInv /\ ReportedInv /\ SuppressedByAnother
  BY TypesInit, BlameInit
<1>2. TypeInv /\ ReportedInv /\ SuppressedByAnother /\ [Next]_vars
        => (TypeInv /\ ReportedInv /\ SuppressedByAnother)'
  BY TypesNext, ReportedNext, BlameNext
<1>3. QED
  BY <1>1, <1>2, PTL DEF Spec

-----------------------------------------------------------------------------
(* The registry and the index of applications.                             *)

\* Registration enters the alert in both or takes it out of both, and leaves every
\* other alert where it is, or evicts it from the registry.
LEMMA RegisterIndexes ==
  ASSUME TypeInv, IndexCoversActive, NEW r \in Requests, NEW i \in Slots, Register(r, i)
  PROVE  IndexCoversActive'
<1>1. /\ active \in [Alerts -> Registered \cup {NotActive}]
      /\ index \in [Apps \X Namespaces -> SUBSET Alerts]
  BY DEF TypeInv, SharedInv
<1> DEFINE f == Fp(r, i)
<1>2. f \in Alerts /\ The(r, i) \in Item
  BY WorkerFacts DEF TypeInv, Register, At
<1>3. PICK e \in Found[f] :
        /\ active' = [Evicted(active) EXCEPT ![f] =
             IF The(r, i).status = "firing" THEN [info |-> e, start |-> The(r, i).start]
             ELSE NotActive]
        /\ index' = Indexed(f, The(r, i).status, e)
  BY DEF Register
<1>4. e \in EnrichedAlert
  BY <1>2, ConstantsAssumption
<1>5. e.app # NoName => <<e.app, e.ns>> \in Apps \X Namespaces
  BY <1>4 DEF EnrichedAlert
<1> HIDE DEF f
<1>6. /\ Evicted(active) \in [Alerts -> Registered \cup {NotActive}]
      /\ \A g \in Alerts : Evicted(active)[g] \in {active[g], NotActive}
  BY <1>1 DEF Evicted
<1>7. ASSUME active'[f] # NotActive, active'[f].info.app # NoName
      PROVE  f \in index'[<<active'[f].info.app, active'[f].info.ns>>]
  <2>1. The(r, i).status = "firing" /\ active'[f] = [info |-> e, start |-> The(r, i).start]
    BY <1>2, <1>3, <1>6, <1>7
  <2>2. e.app # NoName /\ active'[f].info = e
    BY <1>7, <2>1
  <2>3. index' = [index EXCEPT ![<<e.app, e.ns>>] = index[<<e.app, e.ns>>] \cup {f}]
    BY <1>3, <2>1, <2>2 DEF Indexed
  <2>4. QED
    BY <1>1, <1>5, <2>2, <2>3
<1>8. ASSUME NEW g \in Alerts, g # f, active'[g] # NotActive, active'[g].info.app # NoName
      PROVE  g \in index'[<<active'[g].info.app, active'[g].info.ns>>]
  <2>1. active'[g] = active[g]
    BY <1>3, <1>6, <1>8
  <2>2. g \in index[<<active[g].info.app, active[g].info.ns>>]
    BY <1>8, <2>1 DEF IndexCoversActive
  <2>3. \A k \in Apps \X Namespaces : index[k] \ {f} \subseteq index'[k]
    BY <1>1, <1>3 DEF Indexed
  <2>4. <<active[g].info.app, active[g].info.ns>> \in Apps \X Namespaces
    <3>1. active[g] \in Registered
      BY <1>1, <1>8, <2>1
    <3>2. QED
      BY <1>8, <2>1, <3>1 DEF Registered, EnrichedAlert
  <2>5. QED
    BY <1>8, <2>1, <2>2, <2>3, <2>4
<1>9. QED
  BY <1>7, <1>8 DEF IndexCoversActive

\* The call chain check finds every active alert of an application: the registry
\* and its index stay in step though each is cleaned up by code of its own
\* (suppressor.go).
THEOREM IndexAlwaysCoversActive == Spec => []IndexCoversActive
<1>1. Init => IndexCoversActive
  BY DEF Init, IndexCoversActive
<1>2. TypeInv /\ IndexCoversActive /\ [Next]_vars => IndexCoversActive'
  <2> SUFFICES ASSUME TypeInv, IndexCoversActive, [Next]_vars PROVE IndexCoversActive'
    OBVIOUS
  <2>1. CASE UNCHANGED <<active, index>>
    BY <2>1 DEF IndexCoversActive
  <2>2. \/ UNCHANGED <<active, index>>
        \/ \E r \in Requests, i \in Slots : Register(r, i)
    BY Frames DEF Next, WorkerStep
  <2>3. QED
    BY <2>1, <2>2, RegisterIndexes
<1>3. Spec => []TypeInv
  BY TypesInit, TypesNext, PTL DEF Spec
<1>4. QED
  BY <1>1, <1>2, <1>3, PTL DEF Spec

-----------------------------------------------------------------------------
(* What a reply means.                                                     *)

\* A request that is running carries the alert.
Carrying(r, f) ==
  /\ request[r].phase \in {"spawn", "collect"}
  /\ \E i \in DOMAIN request[r].items : request[r].items[i].alert = f

\* How far the worker has come.
HasRegistered(r, i) == job[r][i].phase \in {"parents", "downstreams", "save", "notify", "done"}
HasSaved(r, i) == job[r][i].phase \in {"notify", "done"}

\* The registry says of the alert what was last told of it, unless it is too old.
RegistryAgrees(f) ==
  /\ source[f].told.status = "resolved" => active[f] = NotActive
  /\ source[f].told.status = "firing" /\ source[f].told.start >= now - MaxAge
       => active[f] # NotActive /\ active[f].start = source[f].told.start

\* So does the table.
TableAgrees(f) ==
  store[f].status = source[f].told.status /\ store[f].start = source[f].told.start

\* An alert whose last report did not overlap another is carried by one request
\* at most, whose item is that report; it has been applied as far as the worker
\* has come, and is applied once no request carries it.
Applied(f) ==
  /\ \A r, q \in Requests : Carrying(r, f) /\ Carrying(q, f) => r = q
  /\ \A r \in Requests : \A i \in DOMAIN request[r].items :
       Carrying(r, f) /\ Fp(r, i) = f =>
         /\ The(r, i).status = source[f].told.status
         /\ The(r, i).start = source[f].told.start
         /\ HasRegistered(r, i) => RegistryAgrees(f)
         /\ HasSaved(r, i) => TableAgrees(f)
  /\ (\A r \in Requests : ~Carrying(r, f)) => RegistryAgrees(f) /\ TableAgrees(f)

AppliedInv ==
  \A f \in Alerts : source[f].told # Never /\ ~source[f].shared => Applied(f)

\* A worker that runs belongs to a request that carries its alert, and is the
\* only one of the request with that alert.
LEMMA RunningCarries ==
  ASSUME WorkersInv, NEW r \in Requests, NEW i \in Slots, job[r][i].phase \in Working
  PROVE  /\ i \in DOMAIN request[r].items /\ Fp(r, i) \in Alerts
         /\ Carrying(r, Fp(r, i))
         /\ \A k \in DOMAIN request[r].items : Fp(r, k) = Fp(r, i) => k = i
<1>1. /\ i \in DOMAIN request[r].items /\ Fp(r, i) \in Alerts
      /\ request[r].phase # "idle"
  BY WorkerFacts DEF Working
<1>2. request[r].phase # "done"
  <2>1. ASSUME request[r].phase = "done" PROVE job[r][i].phase = "done"
    BY <1>1, <2>1, CollectedMeansIdle
  <2>2. QED
    BY <2>1 DEF Working
<1>3. request[r] \in Request /\ Progress(r)
  BY DEF WorkersInv
<1>4. request[r].phase \in {"spawn", "collect"}
  BY <1>1, <1>2, <1>3 DEF Request
<1>5. \A k \in DOMAIN request[r].items : Fp(r, k) = Fp(r, i) => k = i
  BY <1>1, <1>3 DEF Progress, Fp
<1>6. QED
  BY <1>1, <1>4, <1>5 DEF Carrying, Fp

\* The items of a request have workers.
LEMMA ItemSlots ==
  ASSUME WorkersInv, NEW r \in Requests, NEW i \in DOMAIN request[r].items
  PROVE  i \in Slots
<1>1. request[r] \in Request /\ Len(request[r].items) <= MaxBatch
  BY DEF WorkersInv, Progress
<1>2. i \in 1..Len(request[r].items) /\ Len(request[r].items) \in Nat
  BY <1>1, LenProperties DEF Request
<1>3. QED
  BY <1>1, <1>2, ConstantsAssumption DEF Slots

\* An alert stays applied by a step that changes neither who carries it nor what was
\* told of it, that brings its worker no further, and that keeps what agreed.
LEMMA AppliedStays ==
  ASSUME NEW f, Applied(f), source'[f].told = source[f].told,
         \A r \in Requests :
           /\ Carrying(r, f)' <=> Carrying(r, f)
           /\ Carrying(r, f) => request'[r].items = request[r].items
         ,
         \A r \in Requests : \A i \in DOMAIN request[r].items :
           Carrying(r, f) /\ Fp(r, i) = f =>
             /\ HasRegistered(r, i)' => HasRegistered(r, i)
             /\ HasSaved(r, i)' => HasSaved(r, i)
         ,
         RegistryAgrees(f) => RegistryAgrees(f)',
         TableAgrees(f) => TableAgrees(f)'
  PROVE  Applied(f)'
<1>1. \A r, q \in Requests : Carrying(r, f)' /\ Carrying(q, f)' => r = q
  BY DEF Applied
<1>2. ASSUME NEW r \in Requests, NEW i \in DOMAIN request'[r].items,
             Carrying(r, f)', Fp(r, i)' = f
      PROVE  /\ The(r, i)'.status = source'[f].told.status
             /\ The(r, i)'.start = source'[f].told.start
             /\ HasRegistered(r, i)' => RegistryAgrees(f)'
             /\ HasSaved(r, i)' => TableAgrees(f)'
  <2>1. Carrying(r, f) /\ request'[r].items = request[r].items
    BY <1>2
  <2>2. i \in DOMAIN request[r].items /\ Fp(r, i) = f /\ The(r, i)' = The(r, i)
    BY <1>2, <2>1 DEF Fp, The
  <2>3. QED
    BY <2>1, <2>2 DEF Applied
<1>3. (\A r \in Requests : ~Carrying(r, f)') => RegistryAgrees(f)' /\ TableAgrees(f)'
  BY DEF Applied
<1>4. QED
  BY <1>1, <1>2, <1>3 DEF Applied

\* Time only makes alerts too old.
LEMMA TickApplies ==
  ASSUME TypeInv, Tick, NEW f \in Alerts, Applied(f) PROVE Applied(f)'
<1>1. now' = now + 1 /\ UNCHANGED <<source, request, job, active, store>>
  BY Frames DEF Tick
<1>2. source[f].told \in Event /\ now \in Int /\ MaxAge \in Int
  BY ConstantsAssumption DEF TypeInv, SharedInv
<1>3. source[f].told.start \in Int
  BY <1>2 DEF Event
<1>4. RegistryAgrees(f) => RegistryAgrees(f)'
  BY <1>1, <1>2, <1>3 DEF RegistryAgrees
<1>5. TableAgrees(f) => TableAgrees(f)'
  BY <1>1 DEF TableAgrees
<1>6. \A r \in Requests :
        /\ Carrying(r, f)' <=> Carrying(r, f)
        /\ Carrying(r, f) => request'[r].items = request[r].items
  BY <1>1 DEF Carrying
<1>7. \A r \in Requests : \A i \in DOMAIN request[r].items :
        Carrying(r, f) /\ Fp(r, i) = f =>
          /\ HasRegistered(r, i)' => HasRegistered(r, i)
          /\ HasSaved(r, i)' => HasSaved(r, i)
  BY <1>1 DEF HasRegistered, HasSaved
<1>8. QED
  BY <1>1, <1>4, <1>5, <1>6, <1>7, AppliedStays

\* Changes at the source are not yet reports.
LEMMA SourceApplies ==
  ASSUME TypeInv, NEW g \in Alerts, Fire(g) \/ Resolve(g), NEW f \in Alerts
  PROVE  /\ source'[f].told = source[f].told /\ source'[f].shared = source[f].shared
         /\ Applied(f) => Applied(f)'
<1>1. source'[f].told = source[f].told /\ source'[f].shared = source[f].shared
  BY DEF Fire, Resolve, TypeInv, SharedInv
<1>2. UNCHANGED <<now, request, job, active, store>>
  BY Frames
<1>3. RegistryAgrees(f) => RegistryAgrees(f)'
  BY <1>1, <1>2 DEF RegistryAgrees
<1>4. TableAgrees(f) => TableAgrees(f)'
  BY <1>1, <1>2 DEF TableAgrees
<1>5. \A r \in Requests :
        /\ Carrying(r, f)' <=> Carrying(r, f)
        /\ Carrying(r, f) => request'[r].items = request[r].items
  BY <1>2 DEF Carrying
<1>6. \A r \in Requests : \A i \in DOMAIN request[r].items :
        Carrying(r, f) /\ Fp(r, i) = f =>
          /\ HasRegistered(r, i)' => HasRegistered(r, i)
          /\ HasSaved(r, i)' => HasSaved(r, i)
  BY <1>2 DEF HasRegistered, HasSaved
<1>7. QED
  BY <1>1, <1>3, <1>4, <1>5, <1>6, AppliedStays

\* A report of an alert that nobody carries is carried by the new request alone,
\* and none of its workers has started.
LEMMA SendApplies ==
  ASSUME TypeInv, AppliedInv, NEW r \in Requests, NEW n \in Slots,
         NEW group \in [1..n -> Alerts], Send(r, group),
         NEW f \in Alerts, source'[f].told # Never, ~ source'[f].shared
  PROVE  Applied(f)'
<1>1. Posted(r, n, group)
  BY SendEffects
<1>2. /\ request[r].phase = "idle" /\ request'[r].phase = "spawn"
      /\ \A q \in Requests \ {r} : request'[q] = request[q]
      /\ DOMAIN request'[r].items = 1..n
      /\ \A i \in 1..n :
           /\ group[i] \in Alerts /\ request'[r].items[i].alert = group[i]
           /\ request'[r].items[i].status = source[group[i]].is.status
           /\ request'[r].items[i].start = source[group[i]].is.start
           /\ source'[group[i]].told = source[group[i]].is
           /\ source'[group[i]].shared = InFlight(group[i])
      /\ \A g \in Alerts : (\A i \in 1..n : group[i] # g) => source'[g] = source[g]
  BY <1>1 DEF Posted
<1>3. UNCHANGED <<now, job, active, store>>
  BY Frames
<1>4. /\ ~ Carrying(r, f)
      /\ \A q \in Requests \ {r} : Carrying(q, f)' <=> Carrying(q, f)
  BY <1>2 DEF Carrying
<1>5. CASE \A i \in 1..n : group[i] # f
  <2>1. source'[f] = source[f]
    BY <1>2, <1>5
  <2>2. Applied(f)
    BY <2>1 DEF AppliedInv
  <2>3. ~ Carrying(r, f)'
    <3>1. \A i \in DOMAIN request'[r].items : request'[r].items[i].alert # f
      BY <1>2, <1>5
    <3>2. QED
      BY <3>1 DEF Carrying
  <2>4. \A q \in Requests :
          /\ Carrying(q, f)' <=> Carrying(q, f)
          /\ Carrying(q, f) => request'[q].items = request[q].items
    BY <1>2, <1>4, <2>3
  <2>5. \A q \in Requests : \A i \in DOMAIN request[q].items :
          Carrying(q, f) /\ Fp(q, i) = f =>
            /\ HasRegistered(q, i)' => HasRegistered(q, i)
            /\ HasSaved(q, i)' => HasSaved(q, i)
    BY <1>3 DEF HasRegistered, HasSaved
  <2>6. RegistryAgrees(f) => RegistryAgrees(f)'
    BY <1>3, <2>1 DEF RegistryAgrees
  <2>7. TableAgrees(f) => TableAgrees(f)'
    BY <1>3, <2>1 DEF TableAgrees
  <2>8. QED
    BY <2>1, <2>2, <2>4, <2>5, <2>6, <2>7, AppliedStays
<1>6. ASSUME NEW k \in 1..n, group[k] = f PROVE Applied(f)'
  <2>1. ~ InFlight(f)
    BY <1>2, <1>6
  <2>2. \A q \in Requests : ~ Carrying(q, f)
    BY <2>1 DEF InFlight, Carrying
  <2>3. \A q \in Requests \ {r} : ~ Carrying(q, f)'
    BY <1>4, <2>2
  <2>4. Carrying(r, f)'
    BY <1>2, <1>6 DEF Carrying
  <2>5. ASSUME NEW i \in DOMAIN request'[r].items, Fp(r, i)' = f
        PROVE  /\ The(r, i)'.status = source'[f].told.status
               /\ The(r, i)'.start = source'[f].told.start
               /\ ~ HasRegistered(r, i)' /\ ~ HasSaved(r, i)'
    <3>1. i \in 1..n /\ group[i] = f
      BY <1>2, <2>5 DEF Fp
    <3>2. /\ The(r, i)'.status = source'[f].told.status
          /\ The(r, i)'.start = source'[f].told.start
      BY <1>2, <3>1 DEF The
    <3>3. i \in Slots
      <4>1. n \in Nat /\ n <= MaxBatch /\ MaxBatch \in Nat
        BY ConstantsAssumption DEF Slots
      <4>2. QED
        BY <3>1, <4>1 DEF Slots
    <3>4. job[r][i].phase = "idle"
      BY <1>2, <3>3, WorkerFacts DEF TypeInv
    <3>5. QED
      BY <1>3, <3>2, <3>4 DEF HasRegistered, HasSaved
  <2>6. QED
    BY <2>3, <2>4, <2>5 DEF Applied
<1>7. QED
  BY <1>5, <1>6

\* A worker that starts has done nothing yet.
LEMMA SpawnApplies ==
  ASSUME TypeInv, NEW r \in Requests, Spawn(r), NEW f \in Alerts, Applied(f)
  PROVE  Applied(f)'
<1>1. UNCHANGED <<now, source, active, store>>
  BY Frames
<1>2. /\ request[r].phase = "spawn" /\ request'[r].phase \in {"spawn", "collect"}
      /\ request'[r].items = request[r].items
      /\ \A q \in Requests \ {r} : request'[q] = request[q]
  <2>1. request \in [Requests -> Request] /\ request[r] \in Request
    BY DEF TypeInv, WorkersInv
  <2>2. QED
    BY <2>1 DEF Spawn, Request
<1>3. \A q \in Requests :
        /\ Carrying(q, f)' <=> Carrying(q, f)
        /\ Carrying(q, f) => request'[q].items = request[q].items
  BY <1>2 DEF Carrying
<1>4. job' = [job EXCEPT ![r][request[r].spawned + 1].phase = "register"]
  BY DEF Spawn
<1>5. ASSUME NEW q \in Requests, NEW i \in DOMAIN request[q].items
      PROVE  /\ HasRegistered(q, i)' => HasRegistered(q, i)
             /\ HasSaved(q, i)' => HasSaved(q, i)
  <2>1. i \in Slots
    BY ItemSlots DEF TypeInv
  <2>2. job \in [Requests -> [Slots -> Job]]
    BY DEF TypeInv, WorkersInv
  <2>3. job'[q][i].phase \in {job[q][i].phase, "register"}
    BY <1>4, <2>1, <2>2 DEF Job
  <2>4. QED
    BY <2>3 DEF HasRegistered, HasSaved
<1>6. RegistryAgrees(f) => RegistryAgrees(f)'
  BY <1>1 DEF RegistryAgrees
<1>7. TableAgrees(f) => TableAgrees(f)'
  BY <1>1 DEF TableAgrees
<1>8. QED
  BY <1>1, <1>3, <1>5, <1>6, <1>7, AppliedStays
\* The collection of a result changes nothing that was applied, and the last one
\* finds every alert of the request applied.
LEMMA IdleWhenCollected ==
  WorkersInv => \A r \in Requests : request[r].phase = "done" =>
    \A i \in DOMAIN request[r].items : job[r][i].phase = "done"
BY CollectedMeansIdle

LEMMA IdleOnceCollected ==
  WorkersInv' => \A r \in Requests : request'[r].phase = "done" =>
    \A i \in DOMAIN request'[r].items : job'[r][i].phase = "done"
<1>1. (WorkersInv => \A r \in Requests : request[r].phase = "done" =>
         \A i \in DOMAIN request[r].items : job[r][i].phase = "done")'
  BY IdleWhenCollected, PTL
<1>2. QED
  BY <1>1

LEMMA CollectApplies ==
  ASSUME TypeInv, NEW r \in Requests, Collect(r), NEW f \in Alerts, Applied(f)
  PROVE  Applied(f)'
<1>1. UNCHANGED <<now, source, job, active, store>>
  BY Frames
<1>2. /\ request[r].phase = "collect" /\ request'[r].phase \in {"collect", "done"}
      /\ request'[r].items = request[r].items
      /\ \A q \in Requests \ {r} : request'[q] = request[q]
  <2>1. request \in [Requests -> Request] /\ request[r] \in Request
    BY DEF TypeInv, WorkersInv
  <2>2. QED
    BY <2>1 DEF Collect, Request
<1>3. /\ RegistryAgrees(f)' <=> RegistryAgrees(f)
      /\ TableAgrees(f)' <=> TableAgrees(f)
  BY <1>1 DEF RegistryAgrees, TableAgrees
<1>4. \A q \in Requests : \A i \in DOMAIN request[q].items :
        Carrying(q, f) /\ Fp(q, i) = f =>
          /\ HasRegistered(q, i)' => HasRegistered(q, i)
          /\ HasSaved(q, i)' => HasSaved(q, i)
  BY <1>1 DEF HasRegistered, HasSaved
<1>5. CASE Carrying(r, f)' <=> Carrying(r, f)
  <2>1. \A q \in Requests :
          /\ Carrying(q, f)' <=> Carrying(q, f)
          /\ Carrying(q, f) => request'[q].items = request[q].items
    BY <1>2, <1>5 DEF Carrying
  <2>2. QED
    BY <1>1, <1>3, <1>4, <2>1, AppliedStays
<1>6. CASE ~ (Carrying(r, f)' <=> Carrying(r, f))
  <2>1. Carrying(r, f) /\ request'[r].phase = "done"
    BY <1>2, <1>6 DEF Carrying
  <2>2. PICK i \in DOMAIN request[r].items : Fp(r, i) = f
    BY <2>1 DEF Carrying, Fp
  <2>3. WorkersInv'
    BY TypesNext DEF Next, TypeInv
  <2>4. job[r][i].phase = "done"
    BY <1>1, <1>2, <2>1, <2>2, <2>3, IdleOnceCollected
  <2>5. RegistryAgrees(f) /\ TableAgrees(f)
    BY <2>1, <2>2, <2>4 DEF Applied, HasRegistered, HasSaved
  <2>6. \A q \in Requests : ~ Carrying(q, f)'
    <3>1. ~ Carrying(r, f)'
      BY <2>1 DEF Carrying
    <3>2. \A q \in Requests \ {r} : Carrying(q, f)' <=> Carrying(q, f)
      BY <1>2 DEF Carrying
    <3>3. \A q \in Requests \ {r} : ~ Carrying(q, f)
      BY <2>1 DEF Applied
    <3>4. QED
      BY <3>1, <3>2, <3>3
  <2>7. QED
    BY <1>3, <2>5, <2>6 DEF Applied
<1>7. QED
  BY <1>5, <1>6

\* The registration of an alert brings the registry to what was reported of it, and
\* leaves what it says of every other alert, except of one that is too old.
LEMMA RegisterApplies ==
  ASSUME TypeInv, NEW r \in Requests, NEW i \in Slots, Register(r, i),
         NEW f \in Alerts, Applied(f)
  PROVE  Applied(f)'
<1>1. UNCHANGED <<now, source, request, store>>
  BY Frames
<1>2. /\ i \in DOMAIN request[r].items /\ Fp(r, i) \in Alerts
      /\ Carrying(r, Fp(r, i))
      /\ \A k \in DOMAIN request[r].items : Fp(r, k) = Fp(r, i) => k = i
  BY RunningCarries DEF Register, At, Working, TypeInv
<1>3. The(r, i) \in Item
  BY WorkerFacts DEF Register, At, TypeInv
<1>4. PICK e \in Found[Fp(r, i)] :
        /\ active' = [Evicted(active) EXCEPT ![Fp(r, i)] =
             IF The(r, i).status = "firing" THEN [info |-> e, start |-> The(r, i).start]
             ELSE NotActive]
        /\ job' = [job EXCEPT ![r][i].info = e,
             ![r][i].phase = IF e.exempt THEN "save" ELSE "parents"]
  BY DEF Register
<1>5. e \in EnrichedAlert
  BY <1>2, ConstantsAssumption
<1>6. /\ active \in [Alerts -> Registered \cup {NotActive}]
      /\ job \in [Requests -> [Slots -> Job]]
      /\ source[f].told \in Event /\ now \in Int /\ MaxAge \in Int
  BY ConstantsAssumption DEF TypeInv, SharedInv, WorkersInv
<1>7. \A q \in Requests : Carrying(q, f)' <=> Carrying(q, f)
  BY <1>1 DEF Carrying
<1>8. TableAgrees(f)' <=> TableAgrees(f)
  BY <1>1 DEF TableAgrees
<1>9. Evicted(active) \in [Alerts -> Registered \cup {NotActive}]
  BY <1>6 DEF Evicted
<1>10. CASE Fp(r, i) # f
  <2>1. active'[f] = Evicted(active)[f]
    BY <1>4, <1>9, <1>10
  <2>2. RegistryAgrees(f) => RegistryAgrees(f)'
    <3>1. source[f].told.start \in Int
      BY <1>6 DEF Event
    <3>2. active[f] = NotActive => Evicted(active)[f] = NotActive
      BY DEF Evicted
    <3>3. active[f] # NotActive /\ active[f].start >= now - MaxAge
            => Evicted(active)[f] = active[f]
      <4>1. active[f] # NotActive => active[f].start \in Int
        BY <1>6 DEF Registered
      <4>2. QED
        BY <1>6, <4>1 DEF Evicted
    <3>4. QED
      BY <1>1, <2>1, <3>1, <3>2, <3>3 DEF RegistryAgrees
  <2>3. \A q \in Requests : \A k \in DOMAIN request[q].items :
          Carrying(q, f) /\ Fp(q, k) = f =>
            /\ HasRegistered(q, k)' => HasRegistered(q, k)
            /\ HasSaved(q, k)' => HasSaved(q, k)
    <3>1. ASSUME NEW q \in Requests, NEW k \in DOMAIN request[q].items, Fp(q, k) = f
          PROVE  job'[q][k] = job[q][k]
      <4>1. ~ (q = r /\ k = i)
        BY <1>10, <3>1
      <4>2. k \in Slots
        BY ItemSlots DEF TypeInv
      <4>3. QED
        BY <4>1, <4>2, OtherWorkers DEF TypeInv, WorkerStep
    <3>2. QED
      BY <3>1 DEF HasRegistered, HasSaved
  <2>4. QED
    BY <1>1, <1>7, <1>8, <2>2, <2>3, AppliedStays
<1>11. CASE Fp(r, i) = f
  <2>1. \A q \in Requests : Carrying(q, f) => q = r
    BY <1>2, <1>11 DEF Applied
  <2>2. The(r, i).status = source[f].told.status /\ The(r, i).start = source[f].told.start
    BY <1>2, <1>11 DEF Applied
  <2>3. RegistryAgrees(f)'
    <3>1. active'[f] = IF The(r, i).status = "firing"
                       THEN [info |-> e, start |-> The(r, i).start] ELSE NotActive
      BY <1>4, <1>9, <1>11
    <3>2. [info |-> e, start |-> The(r, i).start] # NotActive
      BY <1>3, <1>5, ConstantsAssumption DEF Item
    <3>3. QED
      BY <1>1, <2>2, <3>1, <3>2 DEF RegistryAgrees
  <2>4. ~ HasSaved(r, i)'
    BY <1>4, <1>6 DEF HasSaved, Job
  <2>5. ASSUME NEW q \in Requests, NEW k \in DOMAIN request[q].items,
               Carrying(q, f), Fp(q, k) = f
        PROVE  q = r /\ k = i
    BY <1>2, <1>11, <2>1, <2>5
  <2>6. QED
    BY <1>1, <1>2, <1>7, <1>11, <2>1, <2>2, <2>3, <2>4, <2>5 DEF Applied, Fp, The
<1>12. QED
  BY <1>10, <1>11
\* A saved alert has its row, and every other alert keeps its own.
LEMMA SaveApplies ==
  ASSUME TypeInv, ~ Faults, NEW r \in Requests, NEW i \in Slots, Save(r, i),
         NEW f \in Alerts, Applied(f)
  PROVE  Applied(f)'
<1>1. UNCHANGED <<now, source, request, active>>
  BY Frames
<1>2. /\ i \in DOMAIN request[r].items /\ Fp(r, i) \in Alerts
      /\ Carrying(r, Fp(r, i))
      /\ \A k \in DOMAIN request[r].items : Fp(r, k) = Fp(r, i) => k = i
  BY RunningCarries DEF Save, At, Working, TypeInv
<1>3. /\ job[r][i].phase = "save"
      /\ store' = [store EXCEPT ![Fp(r, i)] =
           [status |-> The(r, i).status, start |-> The(r, i).start, by |-> job[r][i].by]]
  BY DEF Save, At
<1>4. store \in [Alerts -> Row] /\ WorkersInv
  BY DEF TypeInv, SharedInv
<1>5. \A q \in Requests : Carrying(q, f)' <=> Carrying(q, f)
  BY <1>1 DEF Carrying
<1>6. RegistryAgrees(f)' <=> RegistryAgrees(f)
  BY <1>1 DEF RegistryAgrees
<1>7. ASSUME NEW q \in Requests, NEW k \in DOMAIN request[q].items, ~ (q = r /\ k = i)
      PROVE  job'[q][k] = job[q][k]
  BY <1>4, <1>7, ItemSlots, OtherWorkers DEF WorkerStep
<1>8. CASE Fp(r, i) # f
  <2>1. TableAgrees(f)' <=> TableAgrees(f)
    BY <1>1, <1>3, <1>4, <1>8 DEF TableAgrees
  <2>2. \A q \in Requests : \A k \in DOMAIN request[q].items :
          Carrying(q, f) /\ Fp(q, k) = f =>
            /\ HasRegistered(q, k)' => HasRegistered(q, k)
            /\ HasSaved(q, k)' => HasSaved(q, k)
    BY <1>7, <1>8 DEF HasRegistered, HasSaved
  <2>3. QED
    BY <1>1, <1>5, <1>6, <2>1, <2>2, AppliedStays
<1>9. CASE Fp(r, i) = f
  <2>1. \A q \in Requests : Carrying(q, f) => q = r
    BY <1>2, <1>9 DEF Applied
  <2>2. /\ The(r, i).status = source[f].told.status
        /\ The(r, i).start = source[f].told.start
        /\ RegistryAgrees(f)
    BY <1>2, <1>3, <1>9 DEF Applied, HasRegistered
  <2>3. TableAgrees(f)'
    BY <1>1, <1>3, <1>4, <1>9, <2>2 DEF TableAgrees
  <2>4. ASSUME NEW q \in Requests, NEW k \in DOMAIN request[q].items,
               Carrying(q, f), Fp(q, k) = f
        PROVE  q = r /\ k = i
    BY <1>2, <1>9, <2>1, <2>4
  <2>5. QED
    BY <1>1, <1>2, <1>5, <1>6, <1>9, <2>1, <2>2, <2>3, <2>4 DEF Applied, Fp, The
<1>10. QED
  BY <1>8, <1>9

\* The checks and the delivery of the result touch neither the registry nor the table.
LEMMA OtherStepApplies ==
  ASSUME TypeInv, NEW r \in Requests, NEW i \in Slots,
         CheckParent(r, i) \/ CheckDownstreams(r, i) \/ Deliver(r, i),
         NEW f \in Alerts, Applied(f)
  PROVE  Applied(f)'
<1>1. UNCHANGED <<now, source, request, active, store>>
  BY Frames
<1>2. /\ WorkersInv /\ job \in [Requests -> [Slots -> Job]]
      /\ i \in DOMAIN request[r].items
  BY RunningCarries DEF CheckParent, CheckDownstreams, Deliver, At, Working, TypeInv,
     WorkersInv
<1>3. /\ HasRegistered(r, i)
      /\ HasSaved(r, i)' => HasSaved(r, i)
  <2>1. CASE CheckParent(r, i)
    <3>1. job[r][i].phase = "parents"
      BY <2>1 DEF CheckParent, At
    <3> DEFINE next == job[r][i].depth + 1
               count == ParentCount(TopologyPath(job[r][i].info))
    <3>2. \/ Goto(r, i, "downstreams")
          \/ \E g : Decide(r, i, g)
          \/ job' = [job EXCEPT ![r][i].depth = next,
               ![r][i].phase = IF next = count THEN "downstreams" ELSE @]
      BY <2>1 DEF CheckParent
    <3>3. job'[r][i].phase \in {"parents", "downstreams", "save"}
      BY <1>2, <3>1, <3>2 DEF Goto, Decide, Job
    <3>4. QED
      BY <3>1, <3>3 DEF HasRegistered, HasSaved
  <2>2. CASE CheckDownstreams(r, i)
    <3>1. job[r][i].phase = "downstreams"
      BY <2>2 DEF CheckDownstreams, At
    <3>2. job'[r][i].phase = "save"
      BY <1>2, <2>2 DEF CheckDownstreams, Goto, Decide, Job
    <3>3. QED
      BY <3>1, <3>2 DEF HasRegistered, HasSaved
  <2>3. CASE Deliver(r, i)
    BY <2>3 DEF Deliver, At, HasRegistered, HasSaved
  <2>4. QED
    BY <2>1, <2>2, <2>3
<1>4. ASSUME NEW q \in Requests, NEW k \in DOMAIN request[q].items, ~ (q = r /\ k = i)
      PROVE  job'[q][k] = job[q][k]
  BY <1>2, <1>4, ItemSlots, OtherWorkers DEF WorkerStep
<1>5. \A q \in Requests : \A k \in DOMAIN request[q].items :
        Carrying(q, f) /\ Fp(q, k) = f =>
          /\ HasRegistered(q, k)' => HasRegistered(q, k)
          /\ HasSaved(q, k)' => HasSaved(q, k)
  BY <1>3, <1>4 DEF HasRegistered, HasSaved
<1>6. \A q \in Requests : Carrying(q, f)' <=> Carrying(q, f)
  BY <1>1 DEF Carrying
<1>7. /\ RegistryAgrees(f)' <=> RegistryAgrees(f)
      /\ TableAgrees(f)' <=> TableAgrees(f)
  BY <1>1 DEF RegistryAgrees, TableAgrees
<1>8. QED
  BY <1>1, <1>5, <1>6, <1>7, AppliedStays

\* What was applied stays applied by every step, if no worker panics and no save fails.
LEMMA AppliedNext ==
  ASSUME ~ Panics, ~ Faults PROVE TypeInv /\ AppliedInv /\ [Next]_vars => AppliedInv'
<1> SUFFICES ASSUME TypeInv, AppliedInv, [Next]_vars, NEW f \in Alerts,
                    source'[f].told # Never, ~ source'[f].shared
             PROVE  Applied(f)'
  BY DEF AppliedInv
<1>1. CASE UNCHANGED source
  <2>1. Applied(f)
    BY <1>1 DEF AppliedInv
  <2>2. CASE Tick
    BY <2>1, <2>2, TickApplies
  <2>3. ASSUME NEW r \in Requests, Spawn(r) PROVE Applied(f)'
    BY <2>1, <2>3, SpawnApplies
  <2>4. ASSUME NEW r \in Requests, Collect(r) PROVE Applied(f)'
    BY <2>1, <2>4, CollectApplies
  <2>5. ASSUME NEW r \in Requests, NEW i \in Slots, WorkerStep(r, i) PROVE Applied(f)'
    BY <2>1, <2>5, RegisterApplies, SaveApplies, OtherStepApplies DEF WorkerStep
  <2>6. ASSUME NEW g \in Alerts, Fire(g) \/ Resolve(g) PROVE Applied(f)'
    BY <2>1, <2>6, SourceApplies
  <2>7. ASSUME NEW r \in Requests, NEW n \in Slots, NEW group \in [1..n -> Alerts],
               Send(r, group)
        PROVE  Applied(f)'
    BY <2>7, SendApplies
  <2>8. CASE UNCHANGED vars
    BY <2>1, <2>8 DEF vars, suppressor, Applied, Carrying, The, Fp, HasRegistered,
       HasSaved, RegistryAgrees, TableAgrees
  <2>9. \A r \in Requests, i \in Slots : ~ Panic(r, i)
    BY DEF Panic
  <2>10. QED
    BY <2>2, <2>3, <2>4, <2>5, <2>6, <2>7, <2>8, <2>9 DEF Next
<1>2. ASSUME NEW g \in Alerts, Fire(g) \/ Resolve(g) PROVE Applied(f)'
  <2>1. source[f].told # Never /\ ~ source[f].shared
    BY <1>2, SourceApplies
  <2>2. QED
    BY <1>2, <2>1, SourceApplies DEF AppliedInv
<1>3. ASSUME NEW r \in Requests, NEW n \in Slots, NEW group \in [1..n -> Alerts],
             Send(r, group)
      PROVE  Applied(f)'
  BY <1>3, SendApplies
<1>4. \/ UNCHANGED source
      \/ \E g \in Alerts : Fire(g) \/ Resolve(g)
      \/ \E r \in Requests, n \in Slots : \E group \in [1..n -> Alerts] : Send(r, group)
  BY Frames DEF Next, WorkerStep
<1>5. QED
  BY <1>1, <1>2, <1>3, <1>4

\* When Alertmanager has its reply, the registry and the table say of the alert what
\* the webhook said, whatever requests for other alerts did meanwhile, as long as no
\* worker panics: a recovered panic replies without having applied its alert
\* (service.go).
THEOREM RepliesAlwaysApplied == ASSUME ~ Panics PROVE Spec => []ReplyMeansApplied
<1>1. CASE Faults
  <2>1. ReplyMeansApplied
    BY <1>1 DEF ReplyMeansApplied
  <2>2. QED
    BY <2>1, PTL
<1>2. CASE ~ Faults
  <2>1. Init => AppliedInv
    BY DEF Init, AppliedInv
  <2>2. TypeInv /\ AppliedInv /\ [Next]_vars => AppliedInv'
    BY <1>2, AppliedNext
  <2>3. TypeInv /\ AppliedInv => ReplyMeansApplied
    <3>1. SUFFICES ASSUME TypeInv, AppliedInv, NEW f \in Alerts, source[f].told # Never,
                          ~ source[f].shared, ~ InFlight(f)
                   PROVE  RegistryAgrees(f) /\ TableAgrees(f)
      BY DEF ReplyMeansApplied, RegistryAgrees, TableAgrees
    <3>2. \A r \in Requests : ~ Carrying(r, f)
      BY <3>1 DEF InFlight, Carrying
    <3>3. QED
      BY <3>1, <3>2 DEF AppliedInv, Applied
  <2>4. Spec => []TypeInv
    BY TypesInit, TypesNext, PTL DEF Spec
  <2>5. QED
    BY <2>1, <2>2, <2>3, <2>4, PTL DEF Spec
<1>3. QED
  BY <1>1, <1>2
=============================================================================
