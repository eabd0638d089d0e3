---------------------------- MODULE GraphProofs -----------------------------
(* The members of applications, the edges of resources and the walks through *)
(* the graph, for every value of the constants of MCPlatform.                *)
EXTENDS MCPlatform, FiniteSetTheorems, NaturalsInduction, WellFoundedInduction, TLAPS

allVars == <<part, graphVars, platformVars>>

-----------------------------------------------------------------------------
(* The members of a business application and the calls of the traces.        *)

Notice == [r: AppResources, type: {"Updated", "Deleted"}, version: Nat]
Working == [step: {"sync", "remove", "count", "drop"}, m: Notice]
Buffers == [vertices: Seq([attrs: Nat, owned: BOOLEAN]), edges: SUBSET AppResources,
            deletes: SUBSET AppResources]
AppType ==
  /\ live \in [AppResources -> Nat]
  /\ topic \in Seq(Notice)
  /\ worker \in [BlsWorkers -> {AppPart!Idle} \cup Working]
  /\ buffer \in Buffers
  /\ flush \in [step: {"none", "vertices", "edges", "deletes"}, items: Buffers]
  /\ flush.step = "none" => flush.items = AppPart!Empty
  /\ member \subseteq AppResources

\* A workload that is marked as in flight is at one worker.
At(w, r) == worker[w] \in Working /\ worker[w].m.r = r
OneWorker ==
  /\ \A w \in BlsWorkers : worker[w] \in Working => worker[w].m.r \in inflight
  /\ \A r \in inflight : \E w \in BlsWorkers : At(w, r)
  /\ \A v, w \in BlsWorkers, r \in AppResources : At(v, r) /\ At(w, r) => v = w

\* Messages of a workload in the topic, of which the deletion is the last.
Awaits(t, r) == \E i \in DOMAIN t : t[i].r = r
AwaitsDelete(t, r) == \E i \in DOMAIN t : t[i].r = r /\ t[i].type = "Deleted"
DeleteIsLast(t, r) ==
  \A i, j \in DOMAIN t : t[i].r = r /\ t[j].r = r /\ i < j => t[i].type = "Updated"

AtStep(r, s) == \E w \in BlsWorkers : At(w, r) /\ worker[w].step = s
Joined(r) == r \in member \cup buffer.edges \cup flush.items.edges
Leaving(r) == r \in buffer.deletes \cup flush.items.deletes
\* A workload is a member, will be, or a message of it is under way; once deleted
\* it leaves, or its deletion is the last that is under way.
Follows(r) ==
  /\ live[r] = 0 => /\ ~Awaits(topic, r) /\ ~AtStep(r, "sync") /\ ~AtStep(r, "remove")
                    /\ ~Joined(r) /\ r \notin gone
  /\ r \notin gone =>
       /\ ~AwaitsDelete(topic, r) /\ ~AtStep(r, "remove") /\ ~Leaving(r)
       /\ r \in seenEdge => Joined(r)
       /\ live[r] > 0 => Awaits(topic, r) \/ AtStep(r, "sync") \/ Joined(r)
  /\ r \in gone =>
       \/ AwaitsDelete(topic, r) /\ ~AtStep(r, "remove") /\ ~Leaving(r)
       \/ /\ ~Awaits(topic, r) /\ ~AtStep(r, "sync")
          /\ AtStep(r, "remove") => ~Leaving(r)
          /\ AtStep(r, "remove") \/ Leaving(r) \/ ~Joined(r)
  /\ DeleteIsLast(topic, r)
  /\ r \in flush.items.deletes => r \notin buffer.edges
  /\ flush.step = "deletes" /\ r \in flush.items.edges => r \in member
AppInv ==
  /\ AppType /\ OneWorker
  /\ \A r \in AppResources \ excused : Follows(r)

CallsInv ==
  /\ DOMAIN calls = {"buffered", "writing", "cached", "written"}
  /\ calls = [x \in DOMAIN calls |-> calls[x]]
  /\ calls.cached \subseteq calls.written

LEMMA AppSteps ==
  ASSUME part = "apps", [Next]_allVars
  PROVE  part' = part /\ (AppPart!Next \/ UNCHANGED appVars)
BY DEF Next, GraphNext, PlatformNext, allVars, graphVars, platformVars

LEMMA BufferFields ==
  ASSUME NEW o \in Buffers
  PROVE  /\ "vertices" \in DOMAIN o /\ "edges" \in DOMAIN o /\ "deletes" \in DOMAIN o
         /\ o = [x \in DOMAIN o |-> o[x]]
BY DEF Buffers
LEMMA EmptyBuffer ==
  /\ AppPart!Empty \in Buffers /\ AppPart!Empty.edges = {} /\ AppPart!Empty.deletes = {}
BY DEF AppPart!Empty, Buffers
LEMMA IdleIsNotWorking == AppPart!Idle \notin Working
BY DEF AppPart!Idle, Working

LEMMA AppStart ==
  ASSUME Init, part = "apps"
  PROVE  AppInv /\ CallsInv
<1>1. AppPart!Init
  BY DEF Init, GraphInit
<1>2. AppType
  BY <1>1, EmptyBuffer DEF AppPart!Init, AppType
<1>3. OneWorker
  BY <1>1, IdleIsNotWorking DEF AppPart!Init, OneWorker, At
<1>4. ASSUME NEW r \in AppResources PROVE Follows(r)
  <2>1. /\ topic = <<>> /\ live[r] = 0 /\ gone = {} /\ seenEdge = {} /\ member = {}
        /\ buffer = AppPart!Empty /\ flush.items = AppPart!Empty /\ flush.step = "none"
    BY <1>1 DEF AppPart!Init
  <2>2. \A s : ~AtStep(r, s)
    BY <1>1, IdleIsNotWorking DEF AppPart!Init, AtStep, At
  <2>3. ~Awaits(topic, r) /\ ~AwaitsDelete(topic, r) /\ DeleteIsLast(topic, r)
    BY <2>1 DEF Awaits, AwaitsDelete, DeleteIsLast
  <2>4. ~Joined(r) /\ ~Leaving(r)
    BY <2>1, EmptyBuffer DEF Joined, Leaving
  <2>5. QED
    BY <2>1, <2>2, <2>3, <2>4, EmptyBuffer DEF Follows
<1>5. CallsInv
  BY <1>1 DEF AppPart!Init, AppPart!NoCalls, CallsInv
<1>6. QED
  BY <1>2, <1>3, <1>4, <1>5 DEF AppInv

\* What a message more, two in the other order, and one less do to the topic.
LEMMA OneNoticeMore ==
  ASSUME NEW t \in Seq(Notice), NEW m \in Notice, NEW r
  PROVE  /\ Append(t, m) \in Seq(Notice)
         /\ Awaits(Append(t, m), r) <=> Awaits(t, r) \/ m.r = r
         /\ AwaitsDelete(Append(t, m), r) <=>
              AwaitsDelete(t, r) \/ (m.r = r /\ m.type = "Deleted")
         /\ DeleteIsLast(t, r) /\ (m.r = r => ~AwaitsDelete(t, r)) =>
              DeleteIsLast(Append(t, m), r)
<1> DEFINE u == Append(t, m)
<1>1. /\ u \in Seq(Notice) /\ Len(u) = Len(t) + 1 /\ u[Len(t) + 1] = m
      /\ \A i \in 1..Len(t) : u[i] = t[i]
  OBVIOUS
<1>2. DOMAIN t = 1..Len(t) /\ DOMAIN u = 1..(Len(t) + 1) /\ Len(t) \in Nat
  BY <1>1
<1>3. \A i \in 1..Len(t) : t[i].type \in {"Updated", "Deleted"}
  <2>1. \A i \in 1..Len(t) : t[i] \in Notice
    OBVIOUS
  <2>2. QED
    BY <2>1 DEF Notice
<1> HIDE DEF u
<1>4. Awaits(u, r) <=> Awaits(t, r) \/ m.r = r
  BY <1>1, <1>2 DEF Awaits
<1>5. AwaitsDelete(u, r) <=> AwaitsDelete(t, r) \/ (m.r = r /\ m.type = "Deleted")
  BY <1>1, <1>2 DEF AwaitsDelete
<1>6. ASSUME DeleteIsLast(t, r), m.r = r => ~AwaitsDelete(t, r)
      PROVE  DeleteIsLast(u, r)
  <2>1. ASSUME NEW i \in DOMAIN u, NEW j \in DOMAIN u, u[i].r = r, u[j].r = r, i < j
        PROVE  u[i].type = "Updated"
    <3>1. i \in 1..Len(t) /\ u[i] = t[i]
      BY <1>1, <1>2, <2>1
    <3>2. CASE j \in 1..Len(t)
      BY <1>1, <1>2, <1>6, <2>1, <3>1, <3>2 DEF DeleteIsLast
    <3>3. CASE j = Len(t) + 1
      BY <1>1, <1>2, <1>3, <1>6, <2>1, <3>1, <3>3 DEF AwaitsDelete
    <3>4. QED
      BY <1>2, <3>2, <3>3
  <2>2. QED
    BY <2>1 DEF DeleteIsLast
<1>7. QED
  BY <1>1, <1>4, <1>5, <1>6 DEF u

LEMMA OneAfterOther ==
  ASSUME NEW S, NEW a \in Seq(S), NEW b \in Seq(S), NEW u, u = a \o b
  PROVE  /\ u \in Seq(S) /\ Len(u) = Len(a) + Len(b)
         /\ \A i \in 1..Len(a) : u[i] = a[i]
         /\ \A i \in 1..Len(b) : u[Len(a) + i] = b[i]
OBVIOUS
LEMMA NoticesSwapped ==
  ASSUME NEW t \in Seq(Notice), NEW m \in Notice, NEW n \in Nat, n = Len(t), n > 0,
         t[n].r = m.r
  PROVE  LET u == SubSeq(t, 1, n - 1) \o <<m, t[n]>> IN
         /\ u \in Seq(Notice)
         /\ \A r : r # m.r => /\ Awaits(u, r) <=> Awaits(t, r)
                              /\ AwaitsDelete(u, r) <=> AwaitsDelete(t, r)
                              /\ DeleteIsLast(t, r) => DeleteIsLast(u, r)
<1> DEFINE u == SubSeq(t, 1, n - 1) \o <<m, t[n]>>
<1>1. PICK a \in Seq(Notice) :
        a = SubSeq(t, 1, n - 1) /\ Len(a) = n - 1 /\ \A i \in 1..(n - 1) : a[i] = t[i]
  <2> DEFINE a == SubSeq(t, 1, n - 1)
  <2>1. a \in Seq(Notice) /\ Len(a) = n - 1 /\ \A i \in 1..(n - 1) : a[i] = t[i]
    OBVIOUS
  <2>2. QED
    BY <2>1, Zenon
<1>2. PICK b \in Seq(Notice) : b = <<m, t[n]>> /\ Len(b) = 2 /\ b[1] = m /\ b[2] = t[n]
  <2> DEFINE b == <<m, t[n]>>
  <2>1. b \in Seq(Notice) /\ Len(b) = 2 /\ b[1] = m /\ b[2] = t[n]
    OBVIOUS
  <2>2. QED
    BY <2>1, Zenon
<1>3. /\ u \in Seq(Notice) /\ Len(u) = n + 1 /\ \A i \in 1..(n - 1) : u[i] = t[i]
      /\ u[n].r = m.r /\ u[n + 1].r = m.r
  <2>1. u = a \o b
    BY <1>1, <1>2
  <2> HIDE DEF u
  <2>2. /\ u \in Seq(Notice) /\ Len(u) = Len(a) + Len(b)
        /\ \A i \in 1..Len(a) : u[i] = a[i]
        /\ \A i \in 1..Len(b) : u[Len(a) + i] = b[i]
    BY <2>1, OneAfterOther
  <2>3. u[n - 1 + 1] = b[1] /\ u[n - 1 + 2] = b[2]
    BY <1>1, <1>2, <2>2
  <2>4. QED
    BY <1>1, <1>2, <2>2, <2>3
<1>4. DOMAIN t = 1..n /\ DOMAIN u = 1..(n + 1)
  BY <1>3
<1> HIDE DEF u
<1>5. ASSUME NEW r, r # m.r
      PROVE  /\ Awaits(u, r) <=> Awaits(t, r)
             /\ AwaitsDelete(u, r) <=> AwaitsDelete(t, r)
             /\ DeleteIsLast(t, r) => DeleteIsLast(u, r)
  <2>1. \A i \in 1..(n + 1) : u[i].r = r => i \in 1..(n - 1) /\ u[i] = t[i]
    <3>1. \A i \in 1..(n + 1) : i \in 1..(n - 1) \/ i = n \/ i = n + 1
      OBVIOUS
    <3>2. QED
      BY <1>3, <1>5, <3>1
  <2>2. \A i \in 1..n : t[i].r = r => i \in 1..(n - 1) /\ u[i] = t[i]
    BY <1>3, <1>5
  <2>3. Awaits(u, r) <=> Awaits(t, r)
    BY <1>4, <2>1, <2>2 DEF Awaits
  <2>4. AwaitsDelete(u, r) <=> AwaitsDelete(t, r)
    BY <1>4, <2>1, <2>2 DEF AwaitsDelete
  <2>5. DeleteIsLast(t, r) => DeleteIsLast(u, r)
    BY <1>4, <2>1, <2>2 DEF DeleteIsLast
  <2>6. QED
    BY <2>3, <2>4, <2>5
<1>6. QED
  BY <1>3, <1>5 DEF u

LEMMA OneNoticeLess ==
  ASSUME NEW t \in Seq(Notice), t # <<>>, NEW r
  PROVE  /\ Head(t) \in Notice /\ Tail(t) \in Seq(Notice)
         /\ Awaits(t, r) <=> Head(t).r = r \/ Awaits(Tail(t), r)
         /\ AwaitsDelete(t, r) <=>
              (Head(t).r = r /\ Head(t).type = "Deleted") \/ AwaitsDelete(Tail(t), r)
         /\ DeleteIsLast(t, r) =>
              /\ DeleteIsLast(Tail(t), r)
              /\ Head(t).r = r /\ Head(t).type = "Deleted" => ~Awaits(Tail(t), r)
<1> DEFINE u == Tail(t)  n == Len(t)
<1>1. /\ n \in Nat /\ n > 0 /\ Head(t) = t[1] /\ t[1] \in Notice
      /\ u \in Seq(Notice) /\ Len(u) = n - 1 /\ \A i \in 1..(n - 1) : u[i] = t[i + 1]
  OBVIOUS
<1>2. DOMAIN t = 1..n /\ DOMAIN u = 1..(n - 1)
  BY <1>1
<1>3. \A i \in 1..n : i = 1 \/ (i - 1 \in 1..(n - 1) /\ t[i] = u[i - 1])
  BY <1>1
<1>4. \A i \in 1..(n - 1) : i + 1 \in 1..n /\ u[i] = t[i + 1]
  BY <1>1
<1>5. 1 \in 1..n
  BY <1>1
<1> HIDE DEF u, n
<1>6. Awaits(t, r) <=> t[1].r = r \/ Awaits(u, r)
  BY <1>2, <1>3, <1>4, <1>5 DEF Awaits
<1>7. AwaitsDelete(t, r) <=> (t[1].r = r /\ t[1].type = "Deleted") \/ AwaitsDelete(u, r)
  BY <1>2, <1>3, <1>4, <1>5 DEF AwaitsDelete
<1>8. ASSUME DeleteIsLast(t, r)
      PROVE  /\ DeleteIsLast(u, r)
             /\ t[1].r = r /\ t[1].type = "Deleted" => ~Awaits(u, r)
  <2>1. ASSUME NEW i \in DOMAIN u, NEW j \in DOMAIN u, u[i].r = r, u[j].r = r, i < j
        PROVE  u[i].type = "Updated"
    <3>1. /\ i + 1 \in DOMAIN t /\ j + 1 \in DOMAIN t /\ i + 1 < j + 1
          /\ u[i] = t[i + 1] /\ u[j] = t[j + 1]
      BY <1>1, <1>2, <1>4, <2>1
    <3>2. QED
      BY <1>8, <2>1, <3>1 DEF DeleteIsLast
  <2>2. ASSUME t[1].r = r, t[1].type = "Deleted", Awaits(u, r) PROVE FALSE
    <3>1. PICK i \in 1..(n - 1) : u[i].r = r
      BY <1>2, <2>2 DEF Awaits
    <3>2. t[i + 1].r = r /\ i + 1 \in DOMAIN t /\ 1 \in DOMAIN t /\ 1 < i + 1
      BY <1>1, <1>2, <1>4, <1>5, <3>1
    <3>3. t[1].type = "Updated"
      BY <1>8, <2>2, <3>2 DEF DeleteIsLast
    <3>4. QED
      BY <2>2, <3>3
  <2>3. QED
    BY <2>1, <2>2 DEF DeleteIsLast
<1>9. QED
  BY <1>1, <1>6, <1>7, <1>8 DEF u

\* A worker that is done, and one that goes on with its workload.
LEMMA WorkerIsDone ==
  ASSUME AppInv, NEW w \in BlsWorkers, worker[w] \in Working, AppPart!Done(w)
  PROVE  /\ worker' \in [BlsWorkers -> {AppPart!Idle} \cup Working] /\ OneWorker'
         /\ \A s : \A r \in AppResources : AtStep(r, s)' <=> AtStep(r, s) /\ r # worker[w].m.r
<1>1. /\ worker'[w] = AppPart!Idle /\ \A v \in BlsWorkers : v # w => worker'[v] = worker[v]
      /\ worker' \in [BlsWorkers -> {AppPart!Idle} \cup Working]
      /\ inflight' = inflight \ {worker[w].m.r}
  BY DEF AppInv, AppType, AppPart!Done
<1>2. \A v \in BlsWorkers, r \in AppResources : At(v, r)' <=> At(v, r) /\ r # worker[w].m.r
  BY <1>1, IdleIsNotWorking DEF AppInv, OneWorker, At
<1>3. OneWorker'
  <2>1. \A v \in BlsWorkers : worker[v] \in Working => worker[v].m.r \in AppResources
    BY DEF Working, Notice
  <2>2. \A v \in BlsWorkers : (worker[v] \in Working)' => v # w /\ worker'[v] = worker[v]
    BY <1>1, IdleIsNotWorking
  <2>3. \A v \in BlsWorkers : (worker[v] \in Working)' => worker'[v].m.r \in inflight'
    BY <1>1, <1>2, <2>1, <2>2 DEF AppInv, OneWorker, At
  <2>4. \A r \in inflight' : r \in AppResources /\ \E v \in BlsWorkers : At(v, r)'
    BY <1>1, <1>2, <2>1 DEF AppInv, OneWorker, At
  <2>5. QED
    BY <1>2, <2>3, <2>4 DEF AppInv, OneWorker
<1>4. \A s : \A r \in AppResources : AtStep(r, s)' <=> AtStep(r, s) /\ r # worker[w].m.r
  BY <1>1, <1>2, IdleIsNotWorking DEF AtStep, At
<1>5. QED
  BY <1>1, <1>3, <1>4

LEMMA WorkerGoesOn ==
  ASSUME AppInv, NEW w \in BlsWorkers, worker[w] \in Working, UNCHANGED inflight,
         NEW s \in {"count", "drop"}, worker' = [worker EXCEPT ![w].step = s]
  PROVE  /\ worker' \in [BlsWorkers -> {AppPart!Idle} \cup Working] /\ OneWorker'
         /\ \A r \in AppResources, q \in {"sync", "remove"} :
              AtStep(r, q)' <=> AtStep(r, q) /\ r # worker[w].m.r
<1>1. PICK x \in Working : x = [worker[w] EXCEPT !.step = s] /\ x.m = worker[w].m /\ x.step = s
  <2>1. PICK x \in Working : x = [worker[w] EXCEPT !.step = s]
    BY DEF Working
  <2>2. x.m = worker[w].m /\ x.step = s
    BY <2>1 DEF Working
  <2>3. QED
    BY <2>1, <2>2
<1>2. /\ worker'[w] = x /\ \A v \in BlsWorkers : v # w => worker'[v] = worker[v]
      /\ worker' \in [BlsWorkers -> {AppPart!Idle} \cup Working]
  BY <1>1 DEF AppInv, AppType
<1>3. \A v \in BlsWorkers, r \in AppResources : At(v, r)' <=> At(v, r)
  BY <1>1, <1>2 DEF At
<1>4. OneWorker'
  <2>1. \A v \in BlsWorkers : (worker[v] \in Working)' => worker'[v].m.r \in inflight'
    BY <1>1, <1>2 DEF AppInv, OneWorker
  <2>2. \A r \in inflight' : \E v \in BlsWorkers : At(v, r)'
    BY <1>1, <1>2 DEF AppInv, OneWorker, At
  <2>3. QED
    BY <1>3, <2>1, <2>2 DEF AppInv, OneWorker
<1>5. ASSUME NEW r \in AppResources, NEW q \in {"sync", "remove"}
      PROVE  AtStep(r, q)' <=> AtStep(r, q) /\ r # worker[w].m.r
  BY <1>1, <1>2, <1>3 DEF AppInv, OneWorker, AtStep, At
<1>6. QED
  BY <1>2, <1>4, <1>5

LEMMA AppChangeStep ==
  ASSUME AppInv, NEW o \in AppResources, AppPart!Change(o)
  PROVE  AppInv'
<1>1. /\ o \notin gone /\ live[o] \in Nat
      /\ UNCHANGED <<worker, inflight, seenEdge, buffer, flush, member>>
  BY DEF AppPart!Change, AppInv, AppType
<1>2. PICK type \in {"Updated", "Deleted"} :
        /\ AppPart!Sent(o, type)
        /\ \/ type = "Updated" /\ live' = [live EXCEPT ![o] = @ + 1] /\ UNCHANGED gone
           \/ type = "Deleted" /\ live[o] > 0 /\ UNCHANGED live /\ gone' = gone \cup {o}
  BY DEF AppPart!Change
<1>3. /\ live' \in [AppResources -> Nat] /\ live'[o] > 0
      /\ \A r \in AppResources \ {o} : live'[r] = live[r] /\ (r \in gone' <=> r \in gone)
  BY <1>1, <1>2 DEF AppInv, AppType
<1>4. PICK m \in Notice : m = [r |-> o, type |-> type, version |-> live'[o]]
                          /\ m.r = o /\ m.type = type
  <2>1. PICK m \in Notice : m = [r |-> o, type |-> type, version |-> live'[o]]
    BY <1>3 DEF Notice
  <2>2. QED
    BY <2>1
<1>5. topic \in Seq(Notice) /\ Len(topic) \in Nat
  BY DEF AppInv, AppType
<1>6. /\ topic' \in Seq(Notice) /\ excused \subseteq excused'
      /\ \A r \in AppResources \ {o} :
           /\ Awaits(topic, r)' <=> Awaits(topic, r)
           /\ AwaitsDelete(topic, r)' <=> AwaitsDelete(topic, r)
           /\ DeleteIsLast(topic, r) => DeleteIsLast(topic, r)'
      /\ o \in excused' \/ topic' = Append(topic, m)
  <2>1. CASE topic' = Append(topic, m) /\ UNCHANGED excused
    BY <1>4, <1>5, <2>1, OneNoticeMore
  <2>2. CASE UNCHANGED topic /\ excused' = excused \cup {o}
    BY <1>5, <2>2
  <2>3. CASE /\ Len(topic) > 0 /\ topic[Len(topic)].r = o
             /\ topic' = SubSeq(topic, 1, Len(topic) - 1) \o <<m, topic[Len(topic)]>>
             /\ excused' = excused \cup {o}
    BY <1>4, <1>5, <2>3, NoticesSwapped
  <2>4. QED
    BY <1>2, <1>4, <2>1, <2>2, <2>3 DEF AppPart!Sent
<1>7. ASSUME NEW r \in AppResources \ excused' PROVE Follows(r)'
  <2>1. Follows(r)
    BY <1>6 DEF AppInv
  <2>2. \A s : AtStep(r, s)' <=> AtStep(r, s)
    BY <1>1 DEF AtStep, At
  <2>3. CASE r # o
    BY <1>1, <1>3, <1>6, <2>1, <2>2, <2>3 DEF Follows, Joined, Leaving
  <2>4. CASE r = o
    <3>1. ~AwaitsDelete(topic, o) /\ ~AtStep(o, "remove") /\ ~Leaving(o) /\ DeleteIsLast(topic, o)
      BY <1>1, <2>1, <2>4 DEF Follows
    <3>2. topic' = Append(topic, m)
      BY <1>6, <2>4
    <3>3. /\ Awaits(topic, o)' /\ DeleteIsLast(topic, o)'
          /\ AwaitsDelete(topic, o)' <=> type = "Deleted"
      BY <1>4, <1>5, <3>1, <3>2, OneNoticeMore
    <3>4. o \in gone' <=> type = "Deleted"
      BY <1>1, <1>2
    <3>5. QED
      BY <1>1, <1>3, <2>1, <2>2, <2>4, <3>1, <3>3, <3>4 DEF Follows, Joined, Leaving
  <2>5. QED
    BY <2>3, <2>4
<1>8. AppType'
  BY <1>1, <1>3, <1>6 DEF AppInv, AppType
<1>9. OneWorker'
  BY <1>1 DEF AppInv, OneWorker, At
<1>10. QED
  BY <1>7, <1>8, <1>9 DEF AppInv

LEMMA AppBeginStep ==
  ASSUME AppInv, NEW w \in BlsWorkers, AppPart!Begin(w)
  PROVE  AppInv'
<1> DEFINE m == Head(topic)
<1>1. /\ worker[w] = AppPart!Idle /\ topic # <<>> /\ topic' = Tail(topic)
      /\ UNCHANGED <<live, gone, seenEdge, buffer, flush, member>>
  BY DEF AppPart!Begin
<1>2. topic \in Seq(Notice) /\ m \in Notice /\ topic' \in Seq(Notice)
  BY <1>1 DEF AppInv, AppType
<1>3. m.r \in AppResources /\ m.type \in {"Updated", "Deleted"}
  BY <1>2 DEF Notice
<1>4. \A r \in AppResources :
        /\ Awaits(topic, r) <=> m.r = r \/ Awaits(topic, r)'
        /\ AwaitsDelete(topic, r) <=> (m.r = r /\ m.type = "Deleted") \/ AwaitsDelete(topic, r)'
        /\ DeleteIsLast(topic, r) =>
             /\ DeleteIsLast(topic, r)'
             /\ m.r = r /\ m.type = "Deleted" => ~Awaits(topic, r)'
  <2>1. ASSUME NEW r \in AppResources
        PROVE  /\ Awaits(topic, r) <=> m.r = r \/ Awaits(Tail(topic), r)
               /\ AwaitsDelete(topic, r) <=>
                    (m.r = r /\ m.type = "Deleted") \/ AwaitsDelete(Tail(topic), r)
               /\ DeleteIsLast(topic, r) =>
                    /\ DeleteIsLast(Tail(topic), r)
                    /\ m.r = r /\ m.type = "Deleted" => ~Awaits(Tail(topic), r)
    BY <1>1, <1>2, OneNoticeLess
  <2>2. QED
    BY <1>1, <2>1
<1> HIDE DEF m
<1>5. CASE m.r \in inflight
  <2>1. /\ UNCHANGED <<worker, inflight>>
        /\ excused' = IF \E v \in AppPart!Busy : worker[v].m.r = m.r
                      THEN excused \cup {m.r} ELSE excused
    BY <1>5 DEF AppPart!Begin, m
  <2>2. excused' = excused \cup {m.r}
    <3>1. PICK v \in BlsWorkers : At(v, m.r)
      BY <1>5 DEF AppInv, OneWorker
    <3>2. v \in AppPart!Busy /\ worker[v].m.r = m.r
      BY <3>1, IdleIsNotWorking DEF AppPart!Busy, At
    <3>3. QED
      BY <2>1, <3>2
  <2>3. ASSUME NEW r \in AppResources \ excused' PROVE Follows(r)'
    <3>1. Follows(r) /\ r # m.r
      BY <2>2 DEF AppInv
    <3>2. \A s : AtStep(r, s)' <=> AtStep(r, s)
      BY <2>1 DEF AtStep, At
    <3>3. QED
      BY <1>1, <1>4, <3>1, <3>2 DEF Follows, Joined, Leaving
  <2>4. AppType'
    BY <1>1, <1>2, <2>1 DEF AppInv, AppType
  <2>5. OneWorker'
    BY <2>1 DEF AppInv, OneWorker, At
  <2>6. QED
    BY <2>3, <2>4, <2>5 DEF AppInv
<1>6. CASE m.r \notin inflight
  <2>1. PICK step \in {"sync", "remove"} : step = "sync" <=> m.type = "Updated"
    OBVIOUS
  <2>2. PICK x \in Working : x = [step |-> step, m |-> m] /\ x.m = m /\ x.step = step
    <3>1. PICK x \in Working : x = [step |-> step, m |-> m]
      BY <1>2, <2>1 DEF Working
    <3>2. QED
      BY <3>1
  <2>3. /\ inflight' = inflight \cup {m.r} /\ worker' = [worker EXCEPT ![w] = x]
        /\ UNCHANGED excused
    <3>1. /\ inflight' = inflight \cup {m.r} /\ UNCHANGED excused
          /\ worker' = [worker EXCEPT ![w] =
               [step |-> IF m.type = "Updated" THEN "sync" ELSE "remove", m |-> m]]
      BY <1>6 DEF AppPart!Begin, m
    <3>2. QED
      BY <2>1, <2>2, <3>1
  <2>4. /\ worker'[w] = x /\ \A v \in BlsWorkers : v # w => worker'[v] = worker[v]
        /\ worker' \in [BlsWorkers -> {AppPart!Idle} \cup Working]
    BY <2>3 DEF AppInv, AppType
  <2>5. worker[w] \notin Working
    BY <1>1, IdleIsNotWorking
  <2>6. \A v \in BlsWorkers : ~At(v, m.r)
    BY <1>6 DEF AppInv, OneWorker, At
  <2>7. \A v \in BlsWorkers, r \in AppResources :
          At(v, r)' <=> (v = w /\ r = m.r) \/ (At(v, r) /\ r # m.r)
    BY <2>2, <2>4, <2>5, <2>6 DEF At
  <2>8. OneWorker'
    <3>1. \A v \in BlsWorkers : (worker[v] \in Working)' => worker'[v].m.r \in inflight'
      BY <2>2, <2>3, <2>4 DEF AppInv, OneWorker
    <3>2. ASSUME NEW r \in inflight' PROVE \E v \in BlsWorkers : At(v, r)'
      <4>1. CASE r = m.r
        BY <1>3, <2>7, <4>1
      <4>2. CASE r # m.r
        <5>1. PICK v \in BlsWorkers : At(v, r)
          BY <2>3, <4>2 DEF AppInv, OneWorker
        <5>2. r \in AppResources
          BY <5>1 DEF At, Working, Notice
        <5>3. QED
          BY <2>7, <4>2, <5>1, <5>2
      <4>3. QED
        BY <4>1, <4>2
    <3>3. QED
      BY <2>7, <3>1, <3>2 DEF AppInv, OneWorker
  <2>9. ASSUME NEW r \in AppResources \ excused' PROVE Follows(r)'
    <3>1. Follows(r)
      BY <2>3 DEF AppInv
    <3>2. \A s : AtStep(r, s)' <=> (r = m.r /\ s = step) \/ (AtStep(r, s) /\ r # m.r)
      BY <2>2, <2>4, <2>7 DEF AtStep, At
    <3>3. CASE r # m.r
      BY <1>1, <1>4, <3>1, <3>2, <3>3 DEF Follows, Joined, Leaving
    <3>4. CASE r = m.r
      <4>1. \A s : ~AtStep(r, s)
        BY <2>6, <3>4 DEF AtStep
      <4>2. QED
        BY <1>1, <1>3, <1>4, <2>1, <3>1, <3>2, <3>4, <4>1 DEF Follows, Joined, Leaving
    <3>5. QED
      BY <3>3, <3>4
  <2>10. AppType'
    BY <1>1, <1>2, <2>4 DEF AppInv, AppType
  <2>11. QED
    BY <2>8, <2>9, <2>10 DEF AppInv
<1>7. QED
  BY <1>5, <1>6

\* A step after which a worker is no longer at its workload.
LEMMA AppWorkerLeaves ==
  ASSUME AppInv, NEW w \in BlsWorkers, worker[w] \in Working,
         AppPart!Done(w) \/ \E s \in {"count", "drop"} :
                              worker' = [worker EXCEPT ![w].step = s] /\ UNCHANGED inflight
  PROVE  /\ worker' \in [BlsWorkers -> {AppPart!Idle} \cup Working] /\ OneWorker'
         /\ \A r \in AppResources, q \in {"sync", "remove"} :
              AtStep(r, q)' <=> AtStep(r, q) /\ r # worker[w].m.r
BY WorkerIsDone, WorkerGoesOn

LEMMA AtStepIsWorking ==
  ASSUME AppInv, NEW w \in BlsWorkers, worker[w].step \in {"sync", "remove", "count", "drop"}
  PROVE  /\ worker[w] \in Working /\ worker[w].m.r \in AppResources
         /\ worker[w].step \in {"sync", "remove"} => AtStep(worker[w].m.r, worker[w].step)
<1>1. worker[w] \in Working
  BY DEF AppInv, AppType, AppPart!Idle
<1>2. worker[w].m.r \in AppResources
  BY <1>1 DEF Working, Notice
<1>3. QED
  BY <1>1, <1>2 DEF AtStep, At

LEMMA SyncAppStep ==
  ASSUME AppInv, NEW w \in BlsWorkers, AppPart!SyncApp(w)
  PROVE  AppInv'
<1> DEFINE m == worker[w].m
<1>1. /\ worker[w].step = "sync" /\ AppPart!Done(w) /\ seenEdge' = seenEdge \cup {m.r}
      /\ buffer' = [buffer EXCEPT
            !.edges = IF m.r \in seenEdge THEN @ ELSE @ \cup {m.r},
            !.vertices = IF AppPart!NeedsVertex(m) THEN Append(@, AppPart!VertexItem(m)) ELSE @]
      /\ UNCHANGED <<live, gone, topic, flush, member, excused>>
  BY DEF AppPart!SyncApp
<1>2. worker[w] \in Working /\ m.r \in AppResources /\ AtStep(m.r, "sync")
  BY <1>1, AtStepIsWorking
<1>3. PICK es \in SUBSET AppResources :
        es = IF m.r \in seenEdge THEN buffer.edges ELSE buffer.edges \cup {m.r}
  BY <1>2 DEF AppInv, AppType, Buffers
<1>4. PICK vs \in Seq([attrs: Nat, owned: BOOLEAN]) :
        vs = IF AppPart!NeedsVertex(m) THEN Append(buffer.vertices, AppPart!VertexItem(m))
             ELSE buffer.vertices
  <2>1. AppPart!VertexItem(m) \in [attrs: Nat, owned: BOOLEAN]
    BY <1>2 DEF AppPart!VertexItem, Working, Notice
  <2>2. buffer.vertices \in Seq([attrs: Nat, owned: BOOLEAN])
    BY DEF AppInv, AppType, Buffers
  <2>3. Append(buffer.vertices, AppPart!VertexItem(m)) \in Seq([attrs: Nat, owned: BOOLEAN])
    BY <2>1, <2>2
  <2>4. QED
    BY <2>2, <2>3, Zenon
<1>5. buffer \in Buffers
  BY DEF AppInv, AppType
<1>6. buffer' = [buffer EXCEPT !.edges = es, !.vertices = vs]
  BY <1>1, <1>3, <1>4
<1>7. buffer' \in Buffers /\ buffer'.edges = es /\ buffer'.deletes = buffer.deletes
  <2>1. buffer' \in Buffers
    BY <1>5, <1>6 DEF Buffers
  <2>2. buffer'.edges = es /\ buffer'.deletes = buffer.deletes
    BY <1>5, <1>6, BufferFields
  <2>3. QED
    BY <2>1, <2>2
<1>8. /\ worker' \in [BlsWorkers -> {AppPart!Idle} \cup Working] /\ OneWorker'
      /\ \A r \in AppResources, q \in {"sync", "remove"} :
           AtStep(r, q)' <=> AtStep(r, q) /\ r # m.r
  BY <1>1, <1>2, AppWorkerLeaves
<1>9. AppType'
  BY <1>1, <1>7, <1>8 DEF AppInv, AppType
<1>10. ASSUME NEW r \in AppResources \ excused' PROVE Follows(r)'
  <2>1. Follows(r)
    BY <1>1 DEF AppInv
  <2>2. /\ AtStep(r, "sync")' <=> AtStep(r, "sync") /\ r # m.r
        /\ AtStep(r, "remove")' <=> AtStep(r, "remove") /\ r # m.r
    BY <1>8
  <2>3. CASE r # m.r
    <3>1. (r \in es <=> r \in buffer.edges) /\ (r \in seenEdge' <=> r \in seenEdge)
      BY <1>1, <1>3, <2>3
    <3>2. QED
      BY <1>1, <1>7, <2>1, <2>2, <2>3, <3>1 DEF Follows, Joined, Leaving
  <2>4. CASE r = m.r
    <3>1. AtStep(r, "sync") /\ r \in seenEdge' /\ live[r] # 0
      BY <1>1, <1>2, <2>1, <2>4 DEF Follows
    <3>2. r \notin seenEdge => r \in es
      BY <1>3, <2>4
    <3>3. r \in seenEdge => es = buffer.edges
      BY <1>3, <2>4
    <3>4. CASE r \in gone
      <4>1. AwaitsDelete(topic, r) /\ ~AtStep(r, "remove") /\ ~Leaving(r)
        BY <2>1, <3>1, <3>4 DEF Follows
      <4>2. r \notin flush'.items.deletes
        BY <1>1, <4>1 DEF Leaving
      <4>3. QED
        BY <1>1, <1>7, <2>1, <2>2, <3>1, <3>4, <4>1, <4>2 DEF Follows, Leaving
    <3>5. CASE r \notin gone
      <4>1. Joined(r)'
        BY <1>1, <1>7, <2>1, <3>2, <3>3, <3>5 DEF Follows, Joined
      <4>2. ~Leaving(r) /\ ~Leaving(r)' /\ r \notin flush'.items.deletes
        BY <1>1, <1>7, <2>1, <3>5 DEF Follows, Leaving
      <4>3. QED
        BY <1>1, <1>7, <2>1, <2>2, <3>1, <3>5, <4>1, <4>2 DEF Follows
    <3>6. QED
      BY <3>4, <3>5
  <2>5. QED
    BY <2>3, <2>4
<1>11. QED
  BY <1>8, <1>9, <1>10 DEF AppInv

LEMMA HasEdgeStep ==
  ASSUME AppInv, NEW w \in BlsWorkers, AppPart!HasEdge(w)
  PROVE  AppInv'
<1> DEFINE o == worker[w].m.r
<1>1. /\ worker[w].step = "remove"
      /\ UNCHANGED <<live, gone, topic, seenEdge, flush, member>>
  BY DEF AppPart!HasEdge
<1>2. worker[w] \in Working /\ o \in AppResources /\ AtStep(o, "remove")
  BY <1>1, AtStepIsWorking
<1>3. /\ AppPart!Done(w) \/ \E s \in {"count", "drop"} :
           worker' = [worker EXCEPT ![w].step = s] /\ UNCHANGED inflight
      /\ excused \subseteq excused'
      /\ \/ o \in member /\ buffer' = [buffer EXCEPT !.deletes = @ \cup {o}]
         \/ o \notin member /\ (o \in excused' \/ o \notin buffer.edges \cup flush.items.edges)
              /\ UNCHANGED buffer
         \/ o \in excused' /\ UNCHANGED buffer
  BY DEF AppPart!HasEdge
<1>4. /\ worker' \in [BlsWorkers -> {AppPart!Idle} \cup Working] /\ OneWorker'
      /\ \A r \in AppResources, q \in {"sync", "remove"} :
           AtStep(r, q)' <=> AtStep(r, q) /\ r # o
  BY <1>2, <1>3, AppWorkerLeaves
<1>5. buffer \in Buffers
  BY DEF AppInv, AppType
<1>6. /\ buffer' \in Buffers /\ buffer'.edges = buffer.edges
      /\ \A r \in AppResources \ {o} : r \in buffer'.deletes <=> r \in buffer.deletes
      /\ o \in buffer'.deletes \/ UNCHANGED buffer
  <2>1. CASE UNCHANGED buffer
    BY <1>5, <2>1
  <2>2. CASE buffer' = [buffer EXCEPT !.deletes = @ \cup {o}]
    <3>1. buffer' \in Buffers
      BY <1>2, <1>5, <2>2 DEF Buffers
    <3>2. buffer'.edges = buffer.edges /\ buffer'.deletes = buffer.deletes \cup {o}
      BY <1>5, <2>2, BufferFields
    <3>3. QED
      BY <3>1, <3>2
  <2>3. QED
    BY <1>3, <2>1, <2>2
<1>7. AppType'
  BY <1>1, <1>4, <1>6 DEF AppInv, AppType
<1>8. ASSUME NEW r \in AppResources \ excused' PROVE Follows(r)'
  <2>1. Follows(r)
    BY <1>3 DEF AppInv
  <2>2. /\ AtStep(r, "sync")' <=> AtStep(r, "sync") /\ r # o
        /\ AtStep(r, "remove")' <=> AtStep(r, "remove") /\ r # o
    BY <1>4
  <2>3. CASE r # o
    BY <1>1, <1>6, <2>1, <2>2, <2>3 DEF Follows, Joined, Leaving
  <2>4. CASE r = o
    <3>1. AtStep(r, "remove")
      BY <1>2, <2>4
    <3>2. /\ r \in gone /\ ~Awaits(topic, r) /\ ~AtStep(r, "sync") /\ ~Leaving(r) /\ live[r] # 0
      BY <2>1, <3>1 DEF Follows
    <3>3. Leaving(r)' \/ ~Joined(r)'
      <4>1. CASE o \in member /\ buffer' = [buffer EXCEPT !.deletes = @ \cup {o}]
        <5>1. buffer'.deletes = buffer.deletes \cup {o}
          BY <1>5, <4>1, BufferFields
        <5>2. QED
          BY <2>4, <5>1 DEF Leaving
      <4>2. CASE o \notin member /\ o \notin buffer.edges \cup flush.items.edges /\ UNCHANGED buffer
        BY <1>1, <2>4, <4>2 DEF Joined
      <4>3. QED
        BY <1>3, <2>4, <4>1, <4>2
    <3>4. r \notin flush.items.deletes
      BY <3>2 DEF Leaving
    <3>5. QED
      BY <1>1, <1>6, <2>1, <2>2, <2>4, <3>2, <3>3, <3>4 DEF Follows
  <2>5. QED
    BY <2>3, <2>4
<1>9. QED
  BY <1>4, <1>7, <1>8 DEF AppInv

LEMMA AppCountStep ==
  ASSUME AppInv, NEW w \in BlsWorkers, AppPart!CountEdges(w) \/ AppPart!DropVertex(w)
  PROVE  AppInv'
<1> DEFINE o == worker[w].m.r
<1>1. /\ worker[w].step \in {"count", "drop"}
      /\ UNCHANGED <<live, gone, topic, seenEdge, flush, member, buffer, excused>>
      /\ AppPart!Done(w) \/ \E s \in {"count", "drop"} :
           worker' = [worker EXCEPT ![w].step = s] /\ UNCHANGED inflight
  BY DEF AppPart!CountEdges, AppPart!DropVertex
<1>2. worker[w] \in Working /\ o \in AppResources
  BY <1>1, AtStepIsWorking
<1>3. /\ worker' \in [BlsWorkers -> {AppPart!Idle} \cup Working] /\ OneWorker'
      /\ \A r \in AppResources, q \in {"sync", "remove"} :
           AtStep(r, q)' <=> AtStep(r, q) /\ r # o
  BY <1>1, <1>2, AppWorkerLeaves
<1>4. \A q \in {"sync", "remove"} : ~AtStep(o, q)
  BY <1>1, <1>2 DEF AppInv, OneWorker, AtStep, At
<1>5. ASSUME NEW r \in AppResources \ excused' PROVE Follows(r)'
  <2>1. Follows(r) /\ \A q \in {"sync", "remove"} : AtStep(r, q)' <=> AtStep(r, q)
    BY <1>1, <1>3, <1>4 DEF AppInv
  <2>2. QED
    BY <1>1, <2>1 DEF Follows, Joined, Leaving
<1>6. AppType'
  BY <1>1, <1>3 DEF AppInv, AppType
<1>7. QED
  BY <1>3, <1>5, <1>6 DEF AppInv

LEMMA FlushStep ==
  ASSUME AppInv, AppPart!Flush
  PROVE  AppInv'
<1>1. /\ UNCHANGED <<live, gone, topic, worker, inflight, seenEdge>>
      /\ excused \subseteq excused'
  BY DEF AppPart!Flush, AppPart!FlushStart, AppPart!FlushVertices, AppPart!FlushEdges,
         AppPart!FlushDeletes
<1>2. /\ flush \in [step: {"none", "vertices", "edges", "deletes"}, items: Buffers]
      /\ buffer \in Buffers /\ flush.items \in Buffers
      /\ flush.step = "none" => flush.items = AppPart!Empty
  BY DEF AppInv, AppType
<1>3. OneWorker'
  BY <1>1 DEF AppInv, OneWorker, At
<1>4. \A r, s : AtStep(r, s)' <=> AtStep(r, s)
  BY <1>1 DEF AtStep, At
<1>5. SUFFICES /\ flush' \in [step: {"none", "vertices", "edges", "deletes"}, items: Buffers]
               /\ buffer' \in Buffers
               /\ flush'.step = "none" => flush'.items = AppPart!Empty
               /\ member' \subseteq AppResources
               /\ \A r \in AppResources \ excused' : Follows(r)'
  BY <1>1, <1>3 DEF AppInv, AppType
<1>6. \A r \in AppResources \ excused' : Follows(r)
  BY <1>1 DEF AppInv
<1>7. CASE AppPart!FlushStart
  <2>1. /\ flush.step = "none" /\ flush' = [step |-> "vertices", items |-> buffer]
        /\ buffer' = AppPart!Empty /\ UNCHANGED <<member, excused>>
    BY <1>7 DEF AppPart!FlushStart
  <2>2. /\ flush.items = AppPart!Empty /\ flush'.items = buffer /\ flush'.step = "vertices"
    BY <1>2, <2>1
  <2>3. flush' \in [step: {"none", "vertices", "edges", "deletes"}, items: Buffers]
    BY <1>2, <2>1
  <2>4. \A r \in AppResources \ excused' : Follows(r)'
    BY <1>1, <1>4, <1>6, <2>1, <2>2, EmptyBuffer DEF Follows, Joined, Leaving
  <2>5. QED
    BY <2>1, <2>2, <2>3, <2>4, EmptyBuffer DEF AppInv, AppType
<1>8. CASE AppPart!FlushVertices
  <2>1. /\ flush.step = "vertices" /\ flush' = [flush EXCEPT !.step = "edges"]
        /\ UNCHANGED <<buffer, member, excused>>
    BY <1>8 DEF AppPart!FlushVertices
  <2>2. /\ flush'.items = flush.items /\ flush'.step = "edges"
        /\ flush' \in [step: {"none", "vertices", "edges", "deletes"}, items: Buffers]
    BY <1>2, <2>1
  <2>3. \A r \in AppResources \ excused' : Follows(r)'
    BY <1>1, <1>4, <1>6, <2>1, <2>2 DEF Follows, Joined, Leaving
  <2>4. QED
    BY <1>2, <2>1, <2>2, <2>3 DEF AppInv, AppType
<1>9. CASE AppPart!FlushEdges
  <2>1. /\ flush.step = "edges" /\ flush' = [flush EXCEPT !.step = "deletes"]
        /\ UNCHANGED buffer
        /\ \/ member' = member \cup flush.items.edges
           \/ UNCHANGED member /\ excused' = excused \cup flush.items.edges
    BY <1>9 DEF AppPart!FlushEdges
  <2>2. /\ flush'.items = flush.items /\ flush'.step = "deletes"
        /\ flush' \in [step: {"none", "vertices", "edges", "deletes"}, items: Buffers]
    BY <1>2, <2>1
  <2>3. flush.items.edges \subseteq AppResources
    BY <1>2 DEF Buffers
  <2>4. \A r \in AppResources \ excused' :
          r \in member' <=> r \in member \/ r \in flush.items.edges
    BY <2>1
  <2>5. \A r \in AppResources \ excused' : Follows(r)'
    BY <1>1, <1>4, <1>6, <2>1, <2>2, <2>4 DEF Follows, Joined, Leaving
  <2>6. QED
    BY <1>2, <2>1, <2>2, <2>3, <2>5 DEF AppInv, AppType
<1>10. CASE AppPart!FlushDeletes
  <2>1. /\ flush.step = "deletes" /\ flush' = [step |-> "none", items |-> AppPart!Empty]
        /\ UNCHANGED buffer
        /\ \/ member' = member \ flush.items.deletes
           \/ UNCHANGED member /\ excused' = excused \cup flush.items.deletes
    BY <1>10 DEF AppPart!FlushDeletes
  <2>2. /\ flush'.items = AppPart!Empty /\ flush'.step = "none"
        /\ flush' \in [step: {"none", "vertices", "edges", "deletes"}, items: Buffers]
    BY <2>1, EmptyBuffer
  <2>3. ASSUME NEW r \in AppResources \ excused' PROVE Follows(r)'
    <3>1. /\ Follows(r)
          /\ r \in member' <=> r \in member /\ r \notin flush.items.deletes
      BY <1>6, <2>1
    <3>2. r \in flush.items.edges => r \in member
      BY <2>1, <3>1 DEF Follows
    <3>3. r \notin flush'.items.deletes /\ r \notin flush'.items.edges
      BY <2>2, EmptyBuffer
    <3>4. CASE r \in flush.items.deletes
      <4>1. Leaving(r)
        BY <3>4 DEF Leaving
      <4>2. /\ r \in gone /\ ~Awaits(topic, r) /\ ~AtStep(r, "sync") /\ ~AtStep(r, "remove")
            /\ r \notin buffer.edges /\ live[r] # 0
        BY <3>1, <3>4, <4>1 DEF Follows
      <4>3. ~Joined(r)'
        BY <2>1, <3>1, <3>3, <3>4, <4>2 DEF Joined
      <4>4. QED
        BY <1>1, <1>4, <2>2, <3>1, <3>3, <4>2, <4>3 DEF Follows
    <3>5. CASE r \notin flush.items.deletes
      <4>1. (Joined(r)' <=> Joined(r)) /\ (Leaving(r)' <=> Leaving(r))
        BY <2>1, <3>1, <3>2, <3>3, <3>5 DEF Joined, Leaving
      <4>2. QED
        BY <1>1, <1>4, <2>1, <2>2, <3>1, <3>3, <4>1 DEF Follows
    <3>6. QED
      BY <3>4, <3>5
  <2>4. QED
    BY <1>2, <2>1, <2>2, <2>3 DEF AppInv, AppType
<1>11. QED
  BY <1>7, <1>8, <1>9, <1>10 DEF AppPart!Flush

LEMMA AppRestartStep ==
  ASSUME AppInv, AppPart!Restart
  PROVE  AppInv'
<1>1. /\ worker' = [w \in BlsWorkers |-> AppPart!Idle] /\ inflight' = {} /\ seenEdge' = {}
      /\ buffer' = AppPart!Empty /\ flush' = [step |-> "none", items |-> AppPart!Empty]
      /\ excused' = excused \cup inflight \cup buffer.edges \cup buffer.deletes
                            \cup flush.items.edges \cup flush.items.deletes
      /\ UNCHANGED <<live, gone, topic, member>>
  BY DEF AppPart!Restart
<1>2. AppType'
  BY <1>1, EmptyBuffer DEF AppInv, AppType
<1>3. \A r : \A v \in BlsWorkers : ~At(v, r)'
  BY <1>1, IdleIsNotWorking DEF At
<1>4. OneWorker'
  BY <1>1, <1>3, IdleIsNotWorking DEF OneWorker
<1>5. ASSUME NEW r \in AppResources \ excused' PROVE Follows(r)'
  <2>1. /\ Follows(r) /\ r \notin inflight
        /\ r \notin buffer.edges \cup buffer.deletes \cup flush.items.edges \cup flush.items.deletes
    BY <1>1 DEF AppInv
  <2>2. \A s : ~AtStep(r, s) /\ ~AtStep(r, s)'
    BY <1>3, <2>1 DEF AppInv, OneWorker, AtStep, At
  <2>3. (Joined(r)' <=> Joined(r)) /\ ~Leaving(r) /\ ~Leaving(r)'
    BY <1>1, <2>1, EmptyBuffer DEF Joined, Leaving
  <2>4. r \notin seenEdge' /\ r \notin flush'.items.deletes /\ flush'.step = "none"
    BY <1>1, EmptyBuffer
  <2>5. QED
    BY <1>1, <2>1, <2>2, <2>3, <2>4 DEF Follows
<1>6. QED
  BY <1>2, <1>4, <1>5 DEF AppInv

\* The trace and flow syncers touch the calls alone.
LEMMA CallsStep ==
  ASSUME CallsInv,
         \/ UNCHANGED calls \/ AppPart!CallEdge \/ AppPart!CallsStart \/ AppPart!CallsWrite
         \/ AppPart!Restart \/ \E p \in AppCalls : AppPart!Flow(p)
  PROVE  CallsInv'
<1>1. CASE UNCHANGED calls
  BY <1>1 DEF CallsInv
<1>2. ASSUME NEW p, calls' = AppPart!Buffered(p) PROVE CallsInv'
  BY <1>2 DEF CallsInv, AppPart!Buffered
<1>3. CASE AppPart!CallsStart
  BY <1>3 DEF CallsInv, AppPart!CallsStart
<1>4. CASE AppPart!CallsWrite
  BY <1>4 DEF CallsInv, AppPart!CallsWrite, AppPart!Dropped
<1>5. CASE AppPart!Restart
  BY <1>5 DEF CallsInv, AppPart!Restart, AppPart!NoCalls
<1>6. QED
  BY <1>1, <1>2, <1>3, <1>4, <1>5 DEF AppPart!CallEdge, AppPart!Flow

LEMMA AppStep ==
  ASSUME AppInv, CallsInv, AppPart!Next \/ UNCHANGED appVars
  PROVE  AppInv' /\ CallsInv'
<1>1. ASSUME UNCHANGED <<live, gone, topic, worker, inflight, seenEdge, buffer, flush, member,
                         excused>>
      PROVE  AppInv'
  <2>1. AppType' /\ OneWorker'
    BY <1>1 DEF AppInv, AppType, OneWorker, At
  <2>2. \A r, s : AtStep(r, s)' <=> AtStep(r, s)
    BY <1>1 DEF AtStep, At
  <2>3. \A r \in AppResources \ excused' : Follows(r)'
    BY <1>1, <2>2 DEF AppInv, Follows, Joined, Leaving
  <2>4. QED
    BY <2>1, <2>3 DEF AppInv
<1>2. CASE UNCHANGED appVars
  BY <1>1, <1>2, CallsStep DEF appVars
<1>3. ASSUME NEW o \in AppResources, AppPart!Change(o) PROVE AppInv' /\ CallsInv'
  BY <1>3, AppChangeStep, CallsStep DEF AppPart!Change, AppPart!traceVars
<1>4. ASSUME NEW w \in BlsWorkers, AppPart!BlsStep(w) PROVE AppInv' /\ CallsInv'
  <2>1. UNCHANGED calls
    BY <1>4 DEF AppPart!BlsStep, AppPart!Begin, AppPart!SyncApp, AppPart!HasEdge,
                AppPart!CountEdges, AppPart!DropVertex, AppPart!traceVars
  <2>2. QED
    BY <1>4, <2>1, AppBeginStep, SyncAppStep, HasEdgeStep, AppCountStep, CallsStep
    DEF AppPart!BlsStep
<1>5. CASE AppPart!Flush
  <2>1. UNCHANGED calls
    BY <1>5 DEF AppPart!Flush, AppPart!FlushStart, AppPart!FlushVertices, AppPart!FlushEdges,
                AppPart!FlushDeletes, AppPart!traceVars
  <2>2. QED
    BY <1>5, <2>1, FlushStep, CallsStep
<1>6. ASSUME AppPart!TraceStep \/ \E p \in AppCalls : AppPart!Span(p) \/ AppPart!Flow(p)
      PROVE  AppInv' /\ CallsInv'
  <2>1. UNCHANGED AppPart!blsVars
    BY <1>6 DEF AppPart!TraceStep, AppPart!Lookup, AppPart!Insert, AppPart!CallEdge,
                AppPart!CallsStart, AppPart!CallsWrite, AppPart!Span, AppPart!Flow
  <2>2. AppInv'
    BY <1>1, <2>1 DEF AppPart!blsVars
  <2>3. CallsInv'
    BY <1>6, CallsStep DEF AppPart!TraceStep, AppPart!Lookup, AppPart!Insert, AppPart!Span
  <2>4. QED
    BY <2>2, <2>3
<1>7. CASE AppPart!Restart
  BY <1>7, AppRestartStep, CallsStep
<1>8. QED
  BY <1>2, <1>3, <1>4, <1>5, <1>6, <1>7 DEF AppPart!Next

LEMMA AppSound ==
  ASSUME AppInv, CallsInv
  PROVE  AppPart!MembersMatch /\ AppPart!CallsWritten
<1>1. ASSUME AppPart!Quiet, NEW r \in AppResources \ excused
      PROVE  r \in member <=> live[r] > 0 /\ r \notin gone
  <2>1. Follows(r) /\ live[r] \in Nat
    BY DEF AppInv, AppType
  <2>2. \A s : ~AtStep(r, s)
    BY <1>1, IdleIsNotWorking DEF AppPart!Quiet, AtStep, At
  <2>3. ~Awaits(topic, r) /\ ~AwaitsDelete(topic, r)
    BY <1>1 DEF AppPart!Quiet, Awaits, AwaitsDelete
  <2>4. (Joined(r) <=> r \in member) /\ ~Leaving(r)
    BY <1>1, EmptyBuffer DEF AppInv, AppType, AppPart!Quiet, Joined, Leaving
  <2>5. QED
    BY <2>1, <2>2, <2>3, <2>4 DEF Follows
<1>2. QED
  BY <1>1 DEF CallsInv, AppPart!MembersMatch, AppPart!CallsWritten

-----------------------------------------------------------------------------
(* The edges of a resource.                                                  *)

\* What a worker may have left to do: to remove what a deleted resource has, to
\* write a vertex, query and sweep its edges, read it back, look for what it
\* refers to, remember the name, and insert the edge.
ToEnd == {<<"tombstone", "query", "delete">>, <<"query", "delete">>, <<"delete">>}
ToWrite == {<<"write", "query", "delete", "fetch", "lookup">>,
            <<"write", "query", "delete", "fetch", "queryType", "delete", "lookup">>}
ToQuery == {<<"query", "delete", "fetch", "lookup">>,
            <<"query", "delete", "fetch", "queryType", "delete", "lookup">>}
ToSweep == {<<"delete", "fetch", "lookup">>,
            <<"delete", "fetch", "queryType", "delete", "lookup">>}
ToFetch == {<<"fetch", "lookup">>, <<"fetch", "queryType", "delete", "lookup">>}
ToLook == {<<"queryType", "delete", "lookup">>, <<"delete", "lookup">>, <<"lookup">>}
ToRemember == {<<"remember", "insert">>, <<"remember", "queryType", "delete", "insert">>}
ToInsert == {<<"queryType", "delete", "insert">>, <<"delete", "insert">>, <<"insert">>}
Todos == ToEnd \cup ToWrite \cup ToQuery \cup ToSweep \cup ToFetch \cup ToLook
           \cup ToRemember \cup ToInsert

Ref == ConfigNames \X Nat
Source == [v: Nat, ref: {NoRef} \cup Ref, gone: BOOLEAN]
Task == [todo: Todos, s: Source, found: SUBSET Ref, app: BOOLEAN, ref: {NoRef} \cup Ref]
EdgeType ==
  /\ source \in Source /\ stored \in Source
  /\ target \in [ConfigNames -> [inc: Nat, live: BOOLEAN]]
  /\ names \in [ConfigNames -> Nat]
  /\ version = IF source.gone THEN 0 ELSE source.v
  /\ written \in [ConfigNames -> SUBSET Nat]
  /\ edges \subseteq Ref /\ app \in BOOLEAN
  /\ messages \subseteq [type: {"Added", "Updated", "Deleted"}, s: Source]
  /\ task \in [EdgeWorkers -> {EdgePart!Idle} \cup Task]
  /\ disturbed \in BOOLEAN

\* A deletion is the last that is said of the source, and said once.
GoneTask(x) ==
  /\ x.s.gone => source.gone
  /\ x.s.gone <=> x.todo \in ToEnd
  /\ x.todo \in ToRemember \cup ToInsert => x.ref # NoRef
GoneInv ==
  /\ stored.gone => source.gone
  /\ \A w \in EdgeWorkers : task[w] \in Task => GoneTask(task[w])
  /\ \A m \in messages :
       /\ m.type = "Deleted" <=> m.s.gone
       /\ m.s.gone => /\ m.s = source /\ ~stored.gone
                      /\ \A w \in EdgeWorkers : task[w] \in Task => ~task[w].s.gone

\* The cached name is that of the target, and a worker that is about to write
\* another one has been noticed.
NameKnown(n) == target[n].live => names[n] = target[n].inc /\ target[n].inc > 0
MayRemember(x) ==
  x.todo \in ToRemember => x.ref[1] \in unsure \/ ~target[x.ref[1]].live
NameInv ==
  /\ \A n \in ConfigNames \ unsure : NameKnown(n)
  /\ \A w \in EdgeWorkers : task[w] \in Task => MayRemember(task[w])

\* Undisturbed, the one message or worker leads to the edge the source asks for.
Right(e) ==
  /\ source.ref # NoRef /\ e[1] = source.ref[1]
  /\ (rule.by = "name" /\ e[1] \notin unsure /\ target[e[1]].live) => e[2] = target[e[1]].inc
  /\ rule.by \in {"uid", "label"} => e = source.ref
Unfound ==
  /\ rule.by \notin {"uid", "label"}
  /\ rule.by = "name" => source.ref[1] \in unsure \/ ~target[source.ref[1]].live
OnTheWay(x) ==
  /\ x.s = source
  /\ x.todo \in ToQuery \cup ToSweep \cup ToFetch => stored = source
  /\ x.todo \in ToSweep \/ (x.todo \in ToEnd /\ Head(x.todo) = "delete") => x.found = edges
  /\ x.todo \in ToFetch \cup ToLook \cup ToRemember \cup ToInsert => edges = {}
  /\ x.todo \in ToLook => x.ref = source.ref
  /\ x.todo \in ToRemember \cup ToInsert => Right(x.ref)
Settled ==
  \/ edges = {} /\ (source.gone \/ source.ref = NoRef \/ Unfound)
  \/ ~source.gone /\ \E e \in edges : edges = {e} /\ Right(e)
Alone ==
  /\ messages = {} \/ \A w \in EdgeWorkers : task[w] \notin Task
  /\ \A m, o \in messages : m = o
  /\ \A v, w \in EdgeWorkers : task[v] \in Task /\ task[w] \in Task => v = w
Undisturbed ==
  ~disturbed =>
    /\ Alone
    /\ rule.from = "self" =>
         /\ \A m \in messages : m.s = source
         /\ \A w \in EdgeWorkers : task[w] \in Task => OnTheWay(task[w])
         /\ messages = {} /\ (\A w \in EdgeWorkers : task[w] \notin Task) => Settled
EdgeInv == EdgeType /\ GoneInv /\ NameInv /\ Undisturbed

LEMMA EdgeSteps ==
  ASSUME part = "edges", [Next]_allVars
  PROVE  part' = part /\ (EdgePart!Next \/ UNCHANGED edgeVars)
BY DEF Next, GraphNext, PlatformNext, allVars, graphVars, platformVars

\* What is left of each, and that it is none of the others.
LEMMA EndTodo ==
  ASSUME NEW t \in ToEnd
  PROVE  /\ t # <<>> /\ Head(t) \in {"tombstone", "query", "delete"}
         /\ Head(t) = "tombstone" => Tail(t) \in ToEnd /\ Head(Tail(t)) # "delete"
         /\ Head(t) = "query" => Tail(t) \in ToEnd /\ Tail(Tail(t)) = <<>>
         /\ Head(t) = "delete" => Tail(t) = <<>>
         /\ t \notin ToWrite \cup ToQuery \cup ToSweep \cup ToFetch
         /\ t \notin ToLook \cup ToRemember \cup ToInsert
<1>1. CASE t = <<"tombstone", "query", "delete">>
  BY <1>1 DEF ToEnd, ToWrite, ToQuery, ToSweep, ToFetch, ToLook, ToRemember, ToInsert
<1>2. CASE t = <<"query", "delete">>
  BY <1>2 DEF ToEnd, ToWrite, ToQuery, ToSweep, ToFetch, ToLook, ToRemember, ToInsert
<1>3. CASE t = <<"delete">>
  BY <1>3 DEF ToEnd, ToWrite, ToQuery, ToSweep, ToFetch, ToLook, ToRemember, ToInsert
<1>4. QED
  BY <1>1, <1>2, <1>3 DEF ToEnd
LEMMA WriteTodo ==
  ASSUME NEW t \in ToWrite
  PROVE  /\ t # <<>> /\ Head(t) = "write" /\ Tail(t) \in ToQuery
         /\ t \notin ToEnd \cup ToQuery \cup ToSweep \cup ToFetch
         /\ t \notin ToLook \cup ToRemember \cup ToInsert
<1>1. CASE t = <<"write", "query", "delete", "fetch", "lookup">>
  BY <1>1 DEF ToEnd, ToQuery, ToSweep, ToFetch, ToLook, ToRemember, ToInsert
<1>2. CASE t = <<"write", "query", "delete", "fetch", "queryType", "delete", "lookup">>
  BY <1>2 DEF ToEnd, ToQuery, ToSweep, ToFetch, ToLook, ToRemember, ToInsert
<1>3. QED
  BY <1>1, <1>2 DEF ToWrite
LEMMA QueryTodo ==
  ASSUME NEW t \in ToQuery
  PROVE  /\ t # <<>> /\ Head(t) = "query" /\ Tail(t) \in ToSweep /\ Tail(Tail(t)) \in ToFetch
         /\ t \notin ToEnd \cup ToWrite \cup ToSweep \cup ToFetch
         /\ t \notin ToLook \cup ToRemember \cup ToInsert
<1>1. CASE t = <<"query", "delete", "fetch", "lookup">>
  BY <1>1 DEF ToEnd, ToWrite, ToSweep, ToFetch, ToLook, ToRemember, ToInsert
<1>2. CASE t = <<"query", "delete", "fetch", "queryType", "delete", "lookup">>
  BY <1>2 DEF ToEnd, ToWrite, ToSweep, ToFetch, ToLook, ToRemember, ToInsert
<1>3. QED
  BY <1>1, <1>2 DEF ToQuery
LEMMA SweepTodo ==
  ASSUME NEW t \in ToSweep
  PROVE  /\ t # <<>> /\ Head(t) = "delete" /\ Tail(t) \in ToFetch
         /\ t \notin ToEnd \cup ToWrite \cup ToQuery \cup ToFetch
         /\ t \notin ToLook \cup ToRemember \cup ToInsert
<1>1. CASE t = <<"delete", "fetch", "lookup">>
  BY <1>1 DEF ToEnd, ToWrite, ToQuery, ToFetch, ToLook, ToRemember, ToInsert
<1>2. CASE t = <<"delete", "fetch", "queryType", "delete", "lookup">>
  BY <1>2 DEF ToEnd, ToWrite, ToQuery, ToFetch, ToLook, ToRemember, ToInsert
<1>3. QED
  BY <1>1, <1>2 DEF ToSweep
LEMMA FetchTodo ==
  ASSUME NEW t \in ToFetch
  PROVE  /\ t # <<>> /\ Head(t) = "fetch" /\ Tail(t) \in ToLook
         /\ t \notin ToEnd \cup ToWrite \cup ToQuery \cup ToSweep
         /\ t \notin ToLook \cup ToRemember \cup ToInsert
<1>1. CASE t = <<"fetch", "lookup">>
  BY <1>1 DEF ToEnd, ToWrite, ToQuery, ToSweep, ToLook, ToRemember, ToInsert
<1>2. CASE t = <<"fetch", "queryType", "delete", "lookup">>
  BY <1>2 DEF ToEnd, ToWrite, ToQuery, ToSweep, ToLook, ToRemember, ToInsert
<1>3. QED
  BY <1>1, <1>2 DEF ToFetch
LEMMA LookTodo ==
  ASSUME NEW t \in ToLook
  PROVE  /\ t # <<>> /\ Head(t) \in {"queryType", "delete", "lookup"}
         /\ Head(t) = "queryType" => Tail(t) \in ToLook /\ Tail(Tail(t)) \in ToLook
         /\ Head(t) = "delete" => Tail(t) \in ToLook
         /\ t \notin ToEnd \cup ToWrite \cup ToQuery \cup ToSweep
         /\ t \notin ToFetch \cup ToRemember \cup ToInsert
<1>1. CASE t = <<"queryType", "delete", "lookup">>
  BY <1>1 DEF ToEnd, ToWrite, ToQuery, ToSweep, ToFetch, ToLook, ToRemember, ToInsert
<1>2. CASE t = <<"delete", "lookup">>
  BY <1>2 DEF ToEnd, ToWrite, ToQuery, ToSweep, ToFetch, ToLook, ToRemember, ToInsert
<1>3. CASE t = <<"lookup">>
  BY <1>3 DEF ToEnd, ToWrite, ToQuery, ToSweep, ToFetch, ToLook, ToRemember, ToInsert
<1>4. QED
  BY <1>1, <1>2, <1>3 DEF ToLook
LEMMA RememberTodo ==
  ASSUME NEW t \in ToRemember
  PROVE  /\ t # <<>> /\ Head(t) = "remember" /\ Tail(t) \in ToInsert
         /\ t \notin ToEnd \cup ToWrite \cup ToQuery \cup ToSweep
         /\ t \notin ToFetch \cup ToLook \cup ToInsert
<1>1. CASE t = <<"remember", "insert">>
  BY <1>1 DEF ToEnd, ToWrite, ToQuery, ToSweep, ToFetch, ToLook, ToInsert
<1>2. CASE t = <<"remember", "queryType", "delete", "insert">>
  BY <1>2 DEF ToEnd, ToWrite, ToQuery, ToSweep, ToFetch, ToLook, ToInsert
<1>3. QED
  BY <1>1, <1>2 DEF ToRemember
LEMMA InsertTodo ==
  ASSUME NEW t \in ToInsert
  PROVE  /\ t # <<>> /\ Head(t) \in {"queryType", "delete", "insert"}
         /\ Head(t) = "queryType" => Tail(t) \in ToInsert /\ Tail(Tail(t)) \in ToInsert
         /\ Head(t) = "delete" => Tail(t) \in ToInsert
         /\ Head(t) = "insert" => Tail(t) = <<>>
         /\ t \notin ToEnd \cup ToWrite \cup ToQuery \cup ToSweep
         /\ t \notin ToFetch \cup ToLook \cup ToRemember
<1>1. CASE t = <<"queryType", "delete", "insert">>
  BY <1>1 DEF ToEnd, ToWrite, ToQuery, ToSweep, ToFetch, ToLook, ToRemember, ToInsert
<1>2. CASE t = <<"delete", "insert">>
  BY <1>2 DEF ToEnd, ToWrite, ToQuery, ToSweep, ToFetch, ToLook, ToRemember, ToInsert
<1>3. CASE t = <<"insert">>
  BY <1>3 DEF ToEnd, ToWrite, ToQuery, ToSweep, ToFetch, ToLook, ToRemember, ToInsert
<1>4. QED
  BY <1>1, <1>2, <1>3 DEF ToInsert

LEMMA ByHead ==
  ASSUME NEW t \in Todos
  PROVE  /\ t # <<>>
         /\ Head(t) \in {"write", "tombstone"} => t \in ToWrite \cup ToEnd
         /\ Head(t) = "query" => t \in ToEnd \cup ToQuery
         /\ Head(t) = "queryType" => t \in ToLook \cup ToInsert
         /\ Head(t) = "delete" => t \in ToEnd \cup ToSweep \cup ToLook \cup ToInsert
         /\ Head(t) = "fetch" => t \in ToFetch
         /\ Head(t) = "lookup" => t \in ToLook
         /\ Head(t) = "remember" => t \in ToRemember
         /\ Head(t) = "insert" => t \in ToInsert
BY EndTodo, WriteTodo, QueryTodo, SweepTodo, FetchTodo, LookTodo, RememberTodo, InsertTodo
DEF Todos

LEMMA TaskFields ==
  ASSUME NEW x \in Task
  PROVE  /\ "todo" \in DOMAIN x /\ "s" \in DOMAIN x /\ "found" \in DOMAIN x
         /\ "app" \in DOMAIN x /\ "ref" \in DOMAIN x
         /\ x = [i \in DOMAIN x |-> x[i]]
         /\ x.todo \in Todos /\ x.todo # <<>> /\ x.s \in Source /\ x.found \subseteq Ref
         /\ x.app \in BOOLEAN /\ x.ref \in {NoRef} \cup Ref
<1>1. x.todo \in Todos
  BY DEF Task
<1>2. x.todo # <<>>
  BY <1>1, ByHead
<1>3. QED
  BY <1>1, <1>2 DEF Task
LEMMA IdleIsNoTask == EdgePart!Idle \notin Task /\ EdgePart!Idle.todo = <<>>
<1>1. EdgePart!Idle.todo = <<>>
  BY DEF EdgePart!Idle
<1>2. QED
  BY <1>1, TaskFields
LEMMA RefsArePairs ==
  /\ NoRef \notin Ref
  /\ \A e \in Ref : e[1] \in ConfigNames /\ e[2] \in Nat /\ e = <<e[1], e[2]>>
<1>1. NoRef \notin ConfigNames \X Nat
  BY GraphAssumption, Zenon
<1>2. \A e \in Ref : e[1] \in ConfigNames /\ e[2] \in Nat /\ e = <<e[1], e[2]>>
  BY DEF Ref
<1>3. QED
  BY <1>1, <1>2 DEF Ref

LEMMA EdgeStart ==
  ASSUME Init, part = "edges"
  PROVE  EdgeInv
<1>1. EdgePart!Init
  BY DEF Init, GraphInit
<1>2. /\ source = EdgePart!NoSource /\ stored = EdgePart!NoSource /\ edges = {} /\ messages = {}
      /\ \A w \in EdgeWorkers : task[w] = EdgePart!Idle
      /\ \A n \in ConfigNames : ~target[n].live
  BY <1>1 DEF EdgePart!Init
<1>3. EdgePart!NoSource \in Source /\ ~EdgePart!NoSource.gone
      /\ EdgePart!NoSource.v = 0 /\ EdgePart!NoSource.ref = NoRef
  BY DEF EdgePart!NoSource, Source
<1>4. \A w \in EdgeWorkers : task[w] \notin Task
  BY <1>2, IdleIsNoTask
<1>5. EdgeType
  BY <1>1, <1>2, <1>3 DEF EdgePart!Init, EdgeType
<1>6. GoneInv
  BY <1>2, <1>3, <1>4 DEF GoneInv
<1>7. NameInv
  BY <1>2, <1>4 DEF NameInv, NameKnown
<1>8. Undisturbed
  BY <1>2, <1>3, <1>4 DEF Undisturbed, Alone, Settled
<1>9. QED
  BY <1>5, <1>6, <1>7, <1>8 DEF EdgeInv

LEMMA BusyHaveTasks ==
  ASSUME EdgeInv
  PROVE  /\ \A w \in EdgeWorkers : w \in EdgePart!Busy <=> task[w] \in Task
         /\ EdgePart!Busy = {} <=> \A w \in EdgeWorkers : task[w] \notin Task
         /\ EdgePart!Busy \subseteq EdgeWorkers
BY IdleIsNoTask DEF EdgeInv, EdgeType, EdgePart!Busy

\* A change of the source: its message is alone, or it is disturbed.
LEMMA SourceStep ==
  ASSUME EdgeInv, EdgePart!Change \/ EdgePart!Delete
  PROVE  EdgeInv'
<1>1. /\ ~source.gone
      /\ UNCHANGED <<rule, target, names, written, stored, edges, app, task, turns, unsure>>
      /\ disturbed' = (messages # {} \/ EdgePart!Busy # {})
  BY DEF EdgePart!Change, EdgePart!Delete
<1>2. source \in Source
  BY DEF EdgeInv, EdgeType
<1>3. /\ source' \in Source
      /\ version' = IF source'.gone THEN 0 ELSE source'.v
  <2>1. CASE EdgePart!Change
    <3>1. PICK ref \in EdgePart!References : source' = [v |-> source.v + 1, ref |-> ref, gone |-> FALSE]
      BY <2>1 DEF EdgePart!Change
    <3>2. ref \in {NoRef} \cup Ref
      <4>1. target \in [ConfigNames -> [inc: Nat, live: BOOLEAN]]
        BY DEF EdgeInv, EdgeType
      <4>2. QED
        BY <4>1 DEF EdgePart!References, Ref
    <3>3. source' \in Source /\ ~source'.gone
      BY <1>2, <3>1, <3>2 DEF Source
    <3>4. QED
      BY <2>1, <3>3 DEF EdgePart!Change
  <2>2. CASE EdgePart!Delete
    BY <1>2, <2>2 DEF EdgePart!Delete, Source
  <2>3. QED
    BY <2>1, <2>2
<1>4. PICK type \in {"Added", "Updated", "Deleted"} :
        /\ messages' = messages \cup {[type |-> type, s |-> source']}
        /\ type = "Deleted" <=> source'.gone
  <2>1. CASE EdgePart!Change
    <3>1. ~source'.gone
      BY <2>1 DEF EdgePart!Change
    <3>2. QED
      BY <2>1, <3>1 DEF EdgePart!Change
  <2>2. CASE EdgePart!Delete
    <3>1. source'.gone
      BY <1>2, <2>2 DEF EdgePart!Delete, Source
    <3>2. QED
      BY <2>2, <3>1 DEF EdgePart!Delete
  <2>3. QED
    BY <2>1, <2>2
<1>5. PICK m \in [type: {"Added", "Updated", "Deleted"}, s: Source] :
        m = [type |-> type, s |-> source'] /\ m.type = type /\ m.s = source'
  <2>1. PICK m \in [type: {"Added", "Updated", "Deleted"}, s: Source] :
          m = [type |-> type, s |-> source']
    BY <1>3
  <2>2. QED
    BY <2>1
<1>6. messages' = messages \cup {m}
  BY <1>4, <1>5
<1>7. EdgeType'
  BY <1>1, <1>3, <1>6 DEF EdgeInv, EdgeType
<1>8. GoneInv'
  <2>1. ~stored.gone /\ \A w \in EdgeWorkers : task[w] \in Task => ~task[w].s.gone /\ GoneTask(task[w])
    BY <1>1 DEF EdgeInv, GoneInv, GoneTask
  <2>2. \A o \in messages : ~o.s.gone /\ (o.type = "Deleted" <=> o.s.gone)
    BY <1>1 DEF EdgeInv, GoneInv
  <2>3. QED
    BY <1>1, <1>4, <1>5, <1>6, <2>1, <2>2 DEF GoneInv, GoneTask
<1>9. NameInv'
  BY <1>1 DEF EdgeInv, NameInv, NameKnown, MayRemember
<1>10. Undisturbed'
  <2>1. CASE messages = {} /\ EdgePart!Busy = {}
    BY <1>1, <1>5, <1>6, <2>1, BusyHaveTasks DEF Undisturbed, Alone
  <2>2. CASE ~(messages = {} /\ EdgePart!Busy = {})
    BY <1>1, <2>2 DEF Undisturbed
  <2>3. QED
    BY <2>1, <2>2
<1>11. QED
  BY <1>7, <1>8, <1>9, <1>10 DEF EdgeInv

\* A target comes, goes or is forgotten.
LEMMA TargetStep ==
  ASSUME EdgeInv, NEW n \in ConfigNames,
         EdgePart!TargetAdded(n) \/ EdgePart!TargetDeleted(n) \/ EdgePart!Evict(n)
  PROVE  EdgeInv'
<1>1. /\ UNCHANGED <<rule, source, version, written, stored, edges, app, messages, task>>
      /\ disturbed' = TRUE
  BY DEF EdgePart!TargetAdded, EdgePart!TargetDeleted, EdgePart!Evict, EdgePart!Changed
<1>2. /\ target \in [ConfigNames -> [inc: Nat, live: BOOLEAN]] /\ names \in [ConfigNames -> Nat]
  BY DEF EdgeInv, EdgeType
<1>3. /\ target' \in [ConfigNames -> [inc: Nat, live: BOOLEAN]] /\ names' \in [ConfigNames -> Nat]
      /\ \A k \in ConfigNames \ {n} : /\ target'[k] = target[k] /\ names'[k] = names[k]
                                      /\ k \in unsure' <=> k \in unsure
      /\ n \in unsure' \/ NameKnown(n)'
      /\ \A w \in EdgeWorkers : EdgePart!LooksUp(w, n) /\ (n \in unsure \/ ~target[n].live) =>
           n \in unsure' \/ ~target'[n].live
  <2>1. CASE EdgePart!TargetAdded(n)
    <3>1. PICK t \in [inc: Nat, live: BOOLEAN] :
            t = [inc |-> target[n].inc + 1, live |-> TRUE] /\ t.live /\ t.inc = target[n].inc + 1
      <4>1. target[n].inc + 1 \in Nat
        BY <1>2
      <4>2. PICK t \in [inc: Nat, live: BOOLEAN] : t = [inc |-> target[n].inc + 1, live |-> TRUE]
        BY <4>1
      <4>3. QED
        BY <4>2
    <3>2. target' = [target EXCEPT ![n] = t] /\ names' = [names EXCEPT ![n] = t.inc]
      BY <2>1, <3>1 DEF EdgePart!TargetAdded, EdgePart!NameSet
    <3>3. unsure' = IF \E w \in EdgeWorkers : EdgePart!LooksUp(w, n)
                    THEN unsure \cup {n} ELSE unsure \ {n}
      BY <2>1 DEF EdgePart!TargetAdded, EdgePart!Changed
    <3>4. t.inc > 0
      BY <1>2, <3>1
    <3>5. QED
      BY <1>2, <3>1, <3>2, <3>3, <3>4 DEF NameKnown
  <2>2. CASE EdgePart!TargetDeleted(n)
    <3>1. PICK t \in [inc: Nat, live: BOOLEAN] : t = [target[n] EXCEPT !.live = FALSE] /\ ~t.live
      <4>1. PICK t \in [inc: Nat, live: BOOLEAN] : t = [target[n] EXCEPT !.live = FALSE]
        BY <1>2
      <4>2. ~t.live
        BY <1>2, <4>1
      <4>3. QED
        BY <4>1, <4>2
    <3>2. target' = [target EXCEPT ![n] = t] /\ names' = [names EXCEPT ![n] = 0]
      BY <1>2, <2>2, <3>1 DEF EdgePart!TargetDeleted
    <3>3. unsure' = IF \E w \in EdgeWorkers : EdgePart!LooksUp(w, n)
                    THEN unsure \cup {n} ELSE unsure \ {n}
      BY <2>2 DEF EdgePart!TargetDeleted, EdgePart!Changed
    <3>4. QED
      BY <1>2, <3>1, <3>2, <3>3 DEF NameKnown
  <2>3. CASE EdgePart!Evict(n)
    BY <1>2, <2>3 DEF EdgePart!Evict, NameKnown
  <2>4. QED
    BY <2>1, <2>2, <2>3
<1>4. EdgeType'
  BY <1>1, <1>3 DEF EdgeInv, EdgeType
<1>5. GoneInv'
  BY <1>1 DEF EdgeInv, GoneInv, GoneTask
<1>6. NameInv'
  <2>1. \A k \in ConfigNames \ unsure' : NameKnown(k)'
    BY <1>3 DEF EdgeInv, NameInv, NameKnown
  <2>2. ASSUME NEW w \in EdgeWorkers, task[w] \in Task PROVE MayRemember(task[w])'
    <3>1. SUFFICES ASSUME task[w].todo \in ToRemember
                   PROVE  task[w].ref[1] \in unsure' \/ ~target'[task[w].ref[1]].live
      BY <1>1 DEF MayRemember
    <3>2. task[w].ref[1] \in unsure \/ ~target[task[w].ref[1]].live
      BY <2>2, <3>1 DEF EdgeInv, NameInv, MayRemember
    <3>3. task[w].ref[1] \in ConfigNames
      BY <2>2, <3>1, TaskFields, RefsArePairs DEF EdgeInv, GoneInv, GoneTask
    <3>4. CASE task[w].ref[1] = n
      <4>1. Head(task[w].todo) = "remember" /\ w \in EdgePart!Busy
        BY <2>2, <3>1, RememberTodo, BusyHaveTasks
      <4>2. EdgePart!LooksUp(w, n)
        BY <3>4, <4>1 DEF EdgePart!LooksUp
      <4>3. QED
        BY <1>3, <3>2, <3>4, <4>2
    <3>5. QED
      BY <1>3, <3>2, <3>3, <3>4
  <2>3. QED
    BY <1>1, <2>1, <2>2 DEF NameInv
<1>7. QED
  BY <1>1, <1>4, <1>5, <1>6 DEF EdgeInv, Undisturbed

\* Steps that leave the edge of a source at its own end as it is.
LEMMA AsideStep ==
  ASSUME EdgeInv,
         EdgePart!JoinApp \/ \E n \in ConfigNames : EdgePart!TargetWritten(n)
  PROVE  EdgeInv'
<1>1. /\ UNCHANGED <<rule, source, target, names, version, stored, messages, task,
                     disturbed, unsure>>
      /\ app' \in BOOLEAN /\ written' \in [ConfigNames -> SUBSET Nat]
      /\ edges' \subseteq edges /\ (rule.from = "self" => UNCHANGED edges)
  <2>1. CASE EdgePart!JoinApp
    BY <2>1 DEF EdgeInv, EdgeType, EdgePart!JoinApp
  <2>2. ASSUME NEW n \in ConfigNames, EdgePart!TargetWritten(n)
        PROVE  /\ UNCHANGED app /\ written' \in [ConfigNames -> SUBSET Nat]
               /\ edges' \subseteq edges /\ (rule.from = "self" => UNCHANGED edges)
    <3>1. target[n].inc \in Nat
      BY DEF EdgeInv, EdgeType
    <3>2. edges' = IF rule.from = "other" THEN edges \ {<<n, target[n].inc>>} ELSE edges
      BY <2>2 DEF EdgePart!TargetWritten
    <3>3. written' \in [ConfigNames -> SUBSET Nat] /\ UNCHANGED app
      BY <2>2, <3>1 DEF EdgePart!TargetWritten, EdgeInv, EdgeType
    <3>4. QED
      BY <3>2, <3>3
  <2>3. QED
    BY <2>1, <2>2 DEF EdgeInv, EdgeType, EdgePart!TargetWritten
<1>2. EdgeType' /\ GoneInv' /\ NameInv'
  BY <1>1 DEF EdgeInv, EdgeType, GoneInv, GoneTask, NameInv, NameKnown, MayRemember
<1>3. Undisturbed'
  BY <1>1 DEF EdgeInv, Undisturbed, Alone, Settled, Unfound, OnTheWay, Right
<1>4. QED
  BY <1>2, <1>3 DEF EdgeInv

LEMMA ProgramTodo ==
  /\ EdgePart!Program("Deleted") \in ToEnd /\ Head(EdgePart!Program("Deleted")) # "delete"
  /\ \A type \in {"Added", "Updated"} : EdgePart!Program(type) \in ToWrite
<1>1. EdgePart!Program("Deleted") = <<"tombstone", "query", "delete">>
  BY DEF EdgePart!Program
<1>2. \A type \in {"Added", "Updated"} : EdgePart!Program(type) \in ToWrite
  BY DEF EdgePart!Program, ToWrite
<1>3. QED
  BY <1>1, <1>2 DEF ToEnd

LEMMA TakeStep ==
  ASSUME EdgeInv, NEW w \in EdgeWorkers, NEW m \in messages, EdgePart!Take(w, m)
  PROVE  EdgeInv'
<1>1. /\ w \notin EdgePart!Busy /\ messages' = messages \ {m}
      /\ disturbed' = (disturbed \/ EdgePart!Busy # {})
      /\ UNCHANGED <<rule, source, target, names, version, written, stored, edges, app, unsure>>
  BY DEF EdgePart!Take
<1>2. /\ m.type \in {"Added", "Updated", "Deleted"} /\ m.s \in Source
      /\ m.type = "Deleted" <=> m.s.gone
      /\ m.s.gone => m.s = source /\ ~stored.gone
      /\ task \in [EdgeWorkers -> {EdgePart!Idle} \cup Task] /\ task[w] \notin Task
  BY <1>1, BusyHaveTasks DEF EdgeInv, EdgeType, GoneInv
<1>3. PICK t \in Todos : t = EdgePart!Program(m.type) /\ (t \in ToEnd <=> m.s.gone)
                         /\ (t \in ToEnd => Head(t) # "delete") /\ t \in ToEnd \cup ToWrite
  <2>1. CASE m.type = "Deleted"
    BY <1>2, <2>1, ProgramTodo DEF Todos
  <2>2. CASE m.type # "Deleted"
    BY <1>2, <2>2, ProgramTodo, WriteTodo DEF Todos
  <2>3. QED
    BY <2>1, <2>2
<1>4. PICK x \in Task : x = [todo |-> t, s |-> m.s, found |-> {}, app |-> FALSE, ref |-> NoRef]
  BY <1>2 DEF Task
<1>5. x.todo = t /\ x.s = m.s
  BY <1>4
<1>6. PICK y \in {EdgePart!Idle, x} :
        task' = [task EXCEPT ![w] = y] /\ (y = EdgePart!Idle <=> EdgePart!Skips(m))
  BY <1>3, <1>4, IdleIsNoTask DEF EdgePart!Take
<1>7. /\ task' \in [EdgeWorkers -> {EdgePart!Idle} \cup Task] /\ task'[w] = y
      /\ \A v \in EdgeWorkers : v # w => task'[v] = task[v]
      /\ \A v \in EdgeWorkers : task'[v] \in Task =>
           (v # w /\ task[v] \in Task /\ task'[v] = task[v]) \/ (v = w /\ task'[v] = x)
  BY <1>2, <1>6, IdleIsNoTask
<1>8. EdgeType'
  BY <1>1, <1>7 DEF EdgeInv, EdgeType
<1>9. GoneTask(x)
  BY <1>2, <1>3, <1>5, EndTodo, WriteTodo DEF GoneTask
<1>10. MayRemember(x)
  BY <1>3, <1>5, EndTodo, WriteTodo DEF MayRemember
<1>11. GoneInv'
  <2>1. \A v \in EdgeWorkers : task'[v] \in Task => GoneTask(task'[v])
    BY <1>7, <1>9 DEF EdgeInv, GoneInv
  <2>2. ASSUME NEW o \in messages', o.s.gone, NEW v \in EdgeWorkers, task'[v] \in Task
        PROVE  ~task'[v].s.gone
    <3>1. o \in messages /\ o # m /\ o.s = source /\ o.type = "Deleted"
      BY <1>1, <2>2 DEF EdgeInv, GoneInv
    <3>2. ~m.s.gone
      <4>1. SUFFICES ASSUME m.s.gone PROVE FALSE
        OBVIOUS
      <4>2. m.s = source /\ m.type = "Deleted"
        BY <1>2, <4>1
      <4>3. o = m
        BY <3>1, <4>2 DEF EdgeInv, EdgeType
      <4>4. QED
        BY <3>1, <4>3
    <3>3. CASE task'[v] = x
      BY <1>5, <3>2, <3>3
    <3>4. CASE task[v] \in Task /\ task'[v] = task[v]
      BY <2>2, <3>1, <3>4 DEF EdgeInv, GoneInv
    <3>5. QED
      BY <1>7, <2>2, <3>3, <3>4
  <2>3. QED
    BY <1>1, <2>1, <2>2 DEF EdgeInv, GoneInv, GoneTask
<1>12. NameInv'
  BY <1>1, <1>7, <1>10 DEF EdgeInv, NameInv, NameKnown, MayRemember
<1>13. Undisturbed'
  <2>1. SUFFICES ASSUME ~disturbed'
                 PROVE  /\ Alone'
                        /\ rule.from = "self" =>
                             /\ \A o \in messages' : o.s = source
                             /\ \A v \in EdgeWorkers : task'[v] \in Task => OnTheWay(task[v])'
                             /\ ~\A v \in EdgeWorkers : task'[v] \notin Task
    BY <1>1 DEF Undisturbed
  <2>2. ~disturbed /\ \A v \in EdgeWorkers : task[v] \notin Task
    BY <1>1, <2>1, BusyHaveTasks DEF EdgeInv, EdgeType
  <2>3. messages = {m}
    BY <2>2 DEF EdgeInv, Undisturbed, Alone
  <2>4. messages' = {} /\ \A v \in EdgeWorkers : task'[v] \in Task => v = w /\ task'[v] = x
    BY <1>1, <1>7, <2>2, <2>3
  <2>5. ASSUME rule.from = "self"
        PROVE  /\ \A v \in EdgeWorkers : task'[v] \in Task => OnTheWay(task[v])'
               /\ task'[w] \in Task
    <3>1. m.s = source
      BY <2>2, <2>5 DEF EdgeInv, Undisturbed
    <3>2. ~EdgePart!Skips(m)
      BY <1>2, <3>1 DEF EdgePart!Skips, EdgeInv, EdgeType
    <3>3. task'[w] = x
      BY <1>6, <1>7, <3>2
    <3>4. /\ x.todo \notin ToQuery \cup ToSweep \cup ToFetch
          /\ x.todo \notin ToLook \cup ToRemember \cup ToInsert
          /\ x.todo \in ToEnd => Head(x.todo) # "delete"
      BY <1>3, <1>5, EndTodo, WriteTodo
    <3>5. (task[w] = x)' => OnTheWay(task[w])'
      BY <1>1, <1>5, <3>1, <3>4 DEF OnTheWay
    <3>6. QED
      BY <1>7, <2>4, <3>3, <3>5
  <2>6. QED
    BY <2>4, <2>5 DEF Alone
<1>14. QED
  BY <1>8, <1>11, <1>12, <1>13 DEF EdgeInv

\* A worker goes on with what it has to do, or is done.
LEMMA WorkGoesOn ==
  ASSUME EdgeInv, NEW w \in EdgeWorkers, task[w] \in Task,
         NEW x \in {EdgePart!Idle} \cup Task, task' = [task EXCEPT ![w] = x],
         UNCHANGED <<rule, source, target, version, written, messages, unsure>>,
         stored' = stored \/ stored' = task[w].s,
         edges' \subseteq Ref, app' \in BOOLEAN,
         names' \in [ConfigNames -> Nat], \A n \in ConfigNames \ unsure : NameKnown(n)',
         x \in Task => x.s = task[w].s /\ GoneTask(x) /\ MayRemember(x),
         disturbed' \in BOOLEAN, disturbed => disturbed',
         (~disturbed' /\ rule.from = "self") =>
           (x \in Task => OnTheWay(x)') /\ (x \notin Task => Settled')
  PROVE  EdgeInv'
<1>1. /\ task \in [EdgeWorkers -> {EdgePart!Idle} \cup Task]
      /\ task' \in [EdgeWorkers -> {EdgePart!Idle} \cup Task] /\ task'[w] = x
      /\ \A v \in EdgeWorkers : v # w => task'[v] = task[v]
  BY DEF EdgeInv, EdgeType
<1>2. task[w].s \in Source /\ GoneTask(task[w]) /\ (task[w].s.gone => source.gone)
  BY TaskFields DEF EdgeInv, GoneInv, GoneTask
<1>3. EdgeType'
  BY <1>1, <1>2 DEF EdgeInv, EdgeType
<1>4. GoneInv'
  <2>1. stored'.gone => source.gone
    BY <1>2 DEF EdgeInv, GoneInv
  <2>2. \A v \in EdgeWorkers : task'[v] \in Task => GoneTask(task'[v])
    BY <1>1 DEF EdgeInv, GoneInv
  <2>3. ASSUME NEW m \in messages, m.s.gone
        PROVE  /\ m.s = source /\ ~stored'.gone
               /\ \A v \in EdgeWorkers : task'[v] \in Task => ~task'[v].s.gone
    <3>1. /\ m.s = source /\ ~stored.gone
          /\ \A v \in EdgeWorkers : task[v] \in Task => ~task[v].s.gone
      BY <2>3 DEF EdgeInv, GoneInv
    <3>2. \A v \in EdgeWorkers : task'[v] \in Task => ~task'[v].s.gone
      BY <1>1, <3>1
    <3>3. QED
      BY <3>1, <3>2
  <2>4. QED
    BY <2>1, <2>2, <2>3 DEF EdgeInv, GoneInv, GoneTask
<1>5. NameInv'
  <2>1. \A v \in EdgeWorkers : task'[v] \in Task => MayRemember(task'[v])
    BY <1>1 DEF EdgeInv, NameInv
  <2>2. QED
    BY <2>1 DEF NameInv, MayRemember
<1>6. Undisturbed'
  <2>1. SUFFICES ASSUME ~disturbed' PROVE Undisturbed'
    BY DEF Undisturbed
  <2>2. /\ ~disturbed /\ messages = {}
        /\ \A v \in EdgeWorkers : v # w => task'[v] \notin Task
    BY <1>1, <2>1 DEF EdgeInv, Undisturbed, Alone
  <2>3. Alone'
    BY <2>2 DEF Alone
  <2>4. QED
    BY <1>1, <2>1, <2>2, <2>3 DEF Undisturbed
<1>7. QED
  BY <1>3, <1>4, <1>5, <1>6 DEF EdgeInv

\* A task of which the rest is left to do.
Left(x, rest) == [x EXCEPT !.todo = rest]

\* What is known of a worker that is at its work.
LEMMA AtWork ==
  ASSUME EdgeInv, NEW w \in EdgeWorkers, w \in EdgePart!Busy
  PROVE  /\ task[w] \in Task /\ GoneTask(task[w]) /\ MayRemember(task[w])
         /\ task[w].todo \in Todos
         /\ EdgePart!Rest(w) = Left(task[w], Tail(task[w].todo))
         /\ ~disturbed /\ rule.from = "self" => OnTheWay(task[w])
<1>1. task[w] \in Task
  BY BusyHaveTasks
<1>2. GoneTask(task[w]) /\ MayRemember(task[w])
  BY <1>1 DEF EdgeInv, GoneInv, NameInv
<1>3. ~disturbed /\ rule.from = "self" => OnTheWay(task[w])
  BY <1>1 DEF EdgeInv, Undisturbed
<1>4. task[w].todo \in Todos
  BY <1>1, TaskFields
<1>5. EdgePart!Rest(w) = Left(task[w], Tail(task[w].todo))
  BY DEF EdgePart!Rest, Left
<1>6. QED
  BY <1>1, <1>2, <1>3, <1>4, <1>5

\* A worker that gives up disturbs.
LEMMA GivesUp ==
  ASSUME EdgeInv, NEW w \in EdgeWorkers, w \in EdgePart!Busy, disturbed' = TRUE,
         EdgePart!Now(w, EdgePart!Idle),
         UNCHANGED <<rule, source, target, names, version, written, stored, edges, app,
                     messages, unsure>>
  PROVE  EdgeInv'
<1>1. task[w] \in Task
  BY AtWork
<1>2. task' = [task EXCEPT ![w] = EdgePart!Idle]
  BY IdleIsNoTask DEF EdgePart!Now
<1>3. EdgePart!Idle \in {EdgePart!Idle} \cup Task /\ EdgePart!Idle \notin Task
  BY IdleIsNoTask
<1>4. /\ edges' \subseteq Ref /\ app' \in BOOLEAN /\ names' \in [ConfigNames -> Nat]
      /\ \A n \in ConfigNames \ unsure : NameKnown(n)'
  BY DEF EdgeInv, EdgeType, NameInv, NameKnown
<1>5. QED
  BY <1>1, <1>2, <1>3, <1>4, WorkGoesOn

LEMMA LessTodo ==
  ASSUME NEW o \in Task, NEW t
  PROVE  /\ Left(o, t).todo = t /\ Left(o, t).s = o.s /\ Left(o, t).ref = o.ref
         /\ t \in Todos => Left(o, t) \in Task
<1>1. PICK x : x = [o EXCEPT !.todo = t]
  OBVIOUS
<1>2. x.todo = t /\ x.s = o.s /\ x.ref = o.ref
  BY <1>1, TaskFields
<1>3. t \in Todos => x \in Task
  BY <1>1 DEF Task
<1>4. QED
  BY <1>1, <1>2, <1>3 DEF Left

LEMMA EdgeWriteStep ==
  ASSUME EdgeInv, NEW w \in EdgeWorkers, EdgePart!Write(w)
  PROVE  EdgeInv'
<1>0. w \in EdgePart!Busy
  BY DEF EdgePart!Write, EdgePart!At
<1> PICK o \in Task : o = task[w]
  BY <1>0, AtWork
<1> PICK t \in Todos : t = o.todo
  BY TaskFields
<1>1. /\ w \in EdgePart!Busy /\ Head(t) \in {"write", "tombstone"}
      /\ UNCHANGED <<rule, source, target, names, version, written, edges, app, messages, unsure>>
  BY DEF EdgePart!Write, EdgePart!At
<1>2. o \in Task /\ GoneTask(o) /\ t \in Todos /\ EdgePart!Rest(w) = Left(o, Tail(t))
      /\ (~disturbed /\ rule.from = "self" => OnTheWay(o))
  BY <1>1, AtWork
<1>3. CASE disturbed' = TRUE /\ EdgePart!Now(w, EdgePart!Idle) /\ UNCHANGED stored
  BY <1>1, <1>3, GivesUp
<1>4. CASE stored' = o.s /\ EdgePart!Now(w, EdgePart!Rest(w)) /\ UNCHANGED disturbed
  <2>1. /\ Tail(t) \in ToEnd \cup ToQuery /\ (Tail(t) \in ToEnd <=> t \in ToEnd)
        /\ Tail(t) # <<>> /\ (Tail(t) \in ToEnd => Head(Tail(t)) # "delete")
        /\ Tail(t) \notin ToSweep \cup ToFetch \cup ToLook \cup ToRemember \cup ToInsert
        /\ Tail(t) \in Todos
    <3>1. CASE t \in ToWrite
      BY <3>1, WriteTodo, QueryTodo DEF Todos
    <3>2. CASE t \in ToEnd
      BY <1>1, <3>2, EndTodo DEF Todos
    <3>3. QED
      BY <1>1, <1>2, <3>1, <3>2, ByHead
  <2>2. PICK x \in Task : x = EdgePart!Rest(w) /\ x.todo = Tail(t) /\ x.s = o.s
    BY <1>2, <2>1, LessTodo
  <2>3. task' = [task EXCEPT ![w] = x]
    BY <1>4, <2>1, <2>2 DEF EdgePart!Now
  <2>4. GoneTask(x) /\ MayRemember(x)
    BY <1>2, <2>1, <2>2 DEF GoneTask, MayRemember
  <2>5. ASSUME ~disturbed', rule.from = "self" PROVE OnTheWay(x)'
    <3>1. o.s = source
      BY <1>2, <1>4, <2>5 DEF OnTheWay
    <3>2. QED
      BY <1>1, <1>4, <2>1, <2>2, <3>1 DEF OnTheWay
  <2>6. /\ edges' \subseteq Ref /\ app' \in BOOLEAN /\ names' \in [ConfigNames -> Nat]
        /\ \A n \in ConfigNames \ unsure : NameKnown(n)'
        /\ disturbed' \in BOOLEAN
    BY <1>1, <1>4 DEF EdgeInv, EdgeType, NameInv, NameKnown
  <2>7. x \in {EdgePart!Idle} \cup Task
    BY <2>2
  <2>8. QED
    BY <1>1, <1>2, <1>4, <2>2, <2>3, <2>4, <2>5, <2>6, <2>7, WorkGoesOn
<1>5. QED
  BY <1>3, <1>4 DEF EdgePart!Write

LEMMA EdgeQueryStep ==
  ASSUME EdgeInv, NEW w \in EdgeWorkers, EdgePart!Query(w)
  PROVE  EdgeInv'
<1>0. w \in EdgePart!Busy
  BY DEF EdgePart!Query, EdgePart!At
<1> PICK o \in Task : o = task[w]
  BY <1>0, AtWork
<1> PICK t \in Todos : t = o.todo
  BY TaskFields
<1>1. /\ w \in EdgePart!Busy /\ Head(t) \in {"query", "queryType"}
      /\ UNCHANGED <<rule, source, target, names, version, written, stored, edges, app, messages,
                     unsure>>
  BY DEF EdgePart!Query, EdgePart!At
<1>2. /\ o \in Task /\ GoneTask(o) /\ t \in Todos
      /\ EdgePart!Rest(w) = Left(o, Tail(t))
      /\ (~disturbed /\ rule.from = "self" => OnTheWay(o))
  BY <1>1, AtWork
<1>3. /\ t \in ToEnd => Tail(t) \in ToEnd /\ Tail(Tail(t)) = <<>>
      /\ t \in ToQuery => Tail(t) \in ToSweep /\ Tail(Tail(t)) \in ToFetch
      /\ t \in ToLook => Tail(t) \in ToLook /\ Tail(Tail(t)) \in ToLook
      /\ t \in ToInsert => Tail(t) \in ToInsert /\ Tail(Tail(t)) \in ToInsert
      /\ t \in ToEnd \cup ToQuery \cup ToLook \cup ToInsert
  BY <1>1, <1>2, ByHead, EndTodo, QueryTodo, LookTodo, InsertTodo
<1>4. /\ edges' \subseteq Ref /\ app' \in BOOLEAN /\ names' \in [ConfigNames -> Nat]
      /\ \A n \in ConfigNames \ unsure : NameKnown(n)'
      /\ disturbed \in BOOLEAN
  BY <1>1 DEF EdgeInv, EdgeType, NameInv, NameKnown
<1>5. CASE disturbed' = TRUE /\ EdgePart!Now(w, Left(o, Tail(Tail(t))))
  <2>1. CASE t \in ToEnd
    <3>1. EdgePart!Now(w, EdgePart!Idle)
      <4>1. Left(o, Tail(Tail(t))).todo = Tail(Tail(t))
        BY LessTodo
      <4>2. Tail(Tail(t)) = <<>>
        BY <1>3, <2>1
      <4>3. QED
        BY <1>5, <4>1, <4>2 DEF EdgePart!Now
    <3>2. QED
      BY <1>1, <1>5, <3>1, GivesUp
  <2>2. CASE t \notin ToEnd
    <3>1. /\ Tail(Tail(t)) \in ToFetch \cup ToLook \cup ToInsert
          /\ Tail(Tail(t)) \in Todos /\ Tail(Tail(t)) # <<>>
          /\ Tail(Tail(t)) \notin ToEnd \cup ToRemember
          /\ Tail(Tail(t)) \in ToInsert => t \in ToInsert
      BY <1>3, <2>2, FetchTodo, LookTodo, InsertTodo DEF Todos
    <3>2. PICK x \in Task : /\ x = Left(o, Tail(Tail(t)))
                            /\ x.todo = Tail(Tail(t)) /\ x.s = o.s /\ x.ref = o.ref
      BY <1>2, <3>1, LessTodo
    <3>3. task' = [task EXCEPT ![w] = x]
      BY <1>5, <3>1, <3>2 DEF EdgePart!Now
    <3>4. GoneTask(x) /\ MayRemember(x)
      BY <1>2, <2>2, <3>1, <3>2 DEF GoneTask, MayRemember
    <3>5. x \in {EdgePart!Idle} \cup Task
      BY <3>2
    <3>6. QED
      BY <1>1, <1>2, <1>4, <1>5, <3>2, <3>3, <3>4, <3>5, WorkGoesOn
  <2>3. QED
    BY <2>1, <2>2
<1>6. CASE /\ EdgePart!Now(w, [EdgePart!Rest(w) EXCEPT !.found = EdgePart!Outgoing(w),
                                                       !.app = app /\ ~EdgePart!Kept(w)])
           /\ UNCHANGED disturbed
  <2>1. /\ Tail(t) \in Todos /\ Tail(t) # <<>> /\ Tail(t) \notin ToQuery \cup ToFetch \cup ToRemember
        /\ Tail(t) \in ToEnd <=> t \in ToEnd
        /\ Tail(t) \in ToLook => t \in ToLook
        /\ Tail(t) \in ToInsert => t \in ToInsert
    BY <1>3, EndTodo, QueryTodo, SweepTodo, LookTodo, InsertTodo DEF Todos
  <2>2. PICK r \in Task : r = EdgePart!Rest(w) /\ r.todo = Tail(t) /\ r.s = o.s /\ r.ref = o.ref
    BY <1>2, <2>1, LessTodo
  <2>3. PICK f \in SUBSET Ref :
          f = EdgePart!Outgoing(w) /\ (rule.from = "self" => f = edges)
    BY DEF EdgePart!Outgoing, EdgeInv, EdgeType
  <2>4. PICK b \in BOOLEAN : b = (app /\ ~EdgePart!Kept(w))
    OBVIOUS
  <2>5. PICK x \in Task : /\ x = [r EXCEPT !.found = f, !.app = b]
                          /\ x.todo = Tail(t) /\ x.s = o.s /\ x.ref = o.ref /\ x.found = f
    <3>1. PICK x \in Task : x = [r EXCEPT !.found = f, !.app = b]
      BY DEF Task
    <3>2. x.todo = r.todo /\ x.s = r.s /\ x.ref = r.ref /\ x.found = f
      BY <3>1, TaskFields
    <3>3. QED
      BY <2>2, <3>1, <3>2
  <2>6. task' = [task EXCEPT ![w] = x]
    BY <1>6, <2>1, <2>2, <2>3, <2>4, <2>5 DEF EdgePart!Now
  <2>7. GoneTask(x) /\ MayRemember(x)
    BY <1>2, <2>1, <2>5 DEF GoneTask, MayRemember
  <2>8. ASSUME ~disturbed', rule.from = "self" PROVE OnTheWay(x)'
    <3>1. OnTheWay(o) /\ x.found = edges
      BY <1>2, <1>6, <2>3, <2>5, <2>8
    <3>2. UNCHANGED <<source, stored, edges, target, unsure, rule>>
      BY <1>1
    <3>3. /\ t \in ToQuery => stored = source
          /\ t \in ToLook \cup ToInsert => edges = {}
          /\ t \in ToLook => o.ref = source.ref
          /\ t \in ToInsert => Right(o.ref)
          /\ o.s = source
      BY <3>1 DEF OnTheWay
    <3>4. Right(o.ref) => Right(o.ref)'
      BY <3>2 DEF Right
    <3>5. (Tail(t) \in ToSweep => t \in ToQuery)
      BY <1>3, EndTodo, SweepTodo, LookTodo, InsertTodo
    <3>6. QED
      BY <2>1, <2>5, <3>1, <3>2, <3>3, <3>4, <3>5 DEF OnTheWay
  <2>9. x \in {EdgePart!Idle} \cup Task
    BY <2>5
  <2>10. QED
    BY <1>1, <1>2, <1>4, <1>6, <2>5, <2>6, <2>7, <2>8, <2>9, WorkGoesOn
<1>7. QED
  BY <1>5, <1>6 DEF EdgePart!Query, Left

LEMMA EdgeRemoveStep ==
  ASSUME EdgeInv, NEW w \in EdgeWorkers, EdgePart!Remove(w)
  PROVE  EdgeInv'
<1>0. w \in EdgePart!Busy
  BY DEF EdgePart!Remove, EdgePart!At
<1> PICK o \in Task : o = task[w]
  BY <1>0, AtWork
<1> PICK t \in Todos : t = o.todo
  BY TaskFields
<1>1. /\ w \in EdgePart!Busy /\ Head(t) = "delete" /\ EdgePart!Now(w, EdgePart!Rest(w))
      /\ UNCHANGED <<rule, source, target, names, version, written, stored, messages, unsure>>
  BY DEF EdgePart!Remove, EdgePart!At
<1>2. /\ o \in Task /\ GoneTask(o) /\ t \in Todos
      /\ EdgePart!Rest(w) = Left(o, Tail(t))
      /\ (~disturbed /\ rule.from = "self" => OnTheWay(o))
  BY <1>1, AtWork
<1>3. /\ t \in ToEnd => Tail(t) = <<>>
      /\ t \in ToSweep => Tail(t) \in ToFetch
      /\ t \in ToLook => Tail(t) \in ToLook
      /\ t \in ToInsert => Tail(t) \in ToInsert
      /\ t \in ToEnd \cup ToSweep \cup ToLook \cup ToInsert
  BY <1>1, <1>2, ByHead, EndTodo, SweepTodo, LookTodo, InsertTodo
<1>4. /\ edges' \subseteq Ref /\ app' \in BOOLEAN /\ disturbed' \in BOOLEAN
      /\ disturbed => disturbed'
      /\ ~disturbed' => ~disturbed /\ edges' = edges \ o.found
  <2>1. edges \subseteq Ref /\ app \in BOOLEAN /\ disturbed \in BOOLEAN
    BY DEF EdgeInv, EdgeType
  <2>2. PICK b \in BOOLEAN : b = (app /\ ~o.app)
    OBVIOUS
  <2>3. \/ edges' = edges \ o.found /\ app' = b /\ UNCHANGED disturbed
        \/ disturbed' = TRUE /\ UNCHANGED <<edges, app>>
    BY <2>2, Zenon DEF EdgePart!Remove
  <2>4. QED
    BY <2>1, <2>3
<1>5. names' \in [ConfigNames -> Nat] /\ \A n \in ConfigNames \ unsure : NameKnown(n)'
  BY <1>1 DEF EdgeInv, EdgeType, NameInv, NameKnown
<1>6. ASSUME ~disturbed', rule.from = "self" PROVE edges' = {}
  <2>1. OnTheWay(o)
    BY <1>2, <1>4, <1>6
  <2>2. o.found = edges \/ edges = {}
    BY <1>1, <1>3, <2>1 DEF OnTheWay
  <2>3. QED
    BY <1>4, <1>6, <2>2
<1>7. CASE t \in ToEnd
  <2>1. task' = [task EXCEPT ![w] = EdgePart!Idle]
    <3>1. Left(o, Tail(t)).todo = Tail(t)
      BY LessTodo
    <3>2. Tail(t) = <<>>
      BY <1>3, <1>7
    <3>3. QED
      BY <1>1, <1>2, <3>1, <3>2 DEF EdgePart!Now
  <2>2. source.gone
    BY <1>2, <1>7 DEF GoneTask
  <2>3. (~disturbed' /\ rule.from = "self") => Settled'
    BY <1>1, <1>6, <2>2 DEF Settled
  <2>4. QED
    BY <1>1, <1>2, <1>4, <1>5, <2>1, <2>3, IdleIsNoTask, WorkGoesOn
<1>8. CASE t \notin ToEnd
  <2>1. /\ Tail(t) \in ToFetch \cup ToLook \cup ToInsert /\ Tail(t) \in Todos /\ Tail(t) # <<>>
        /\ Tail(t) \notin ToEnd \cup ToQuery \cup ToSweep \cup ToRemember
        /\ Tail(t) \in ToFetch => t \in ToSweep
        /\ Tail(t) \in ToLook => t \in ToLook
        /\ Tail(t) \in ToInsert => t \in ToInsert
    BY <1>3, <1>8, FetchTodo, LookTodo, InsertTodo DEF Todos
  <2>2. PICK x \in Task : x = EdgePart!Rest(w) /\ x.todo = Tail(t) /\ x.s = o.s /\ x.ref = o.ref
    BY <1>2, <2>1, LessTodo
  <2>3. task' = [task EXCEPT ![w] = x]
    BY <1>1, <2>1, <2>2 DEF EdgePart!Now
  <2>4. GoneTask(x) /\ MayRemember(x)
    BY <1>2, <1>8, <2>1, <2>2 DEF GoneTask, MayRemember
  <2>5. ASSUME ~disturbed', rule.from = "self" PROVE OnTheWay(x)'
    <3>1. OnTheWay(o) /\ edges' = {}
      BY <1>2, <1>4, <1>6, <2>5
    <3>2. t \in ToSweep => stored = source
      BY <3>1 DEF OnTheWay
    <3>3. QED
      BY <1>1, <2>1, <2>2, <3>1, <3>2 DEF OnTheWay, Right
  <2>6. x \in {EdgePart!Idle} \cup Task
    BY <2>2
  <2>7. QED
    BY <1>1, <1>2, <1>4, <1>5, <2>2, <2>3, <2>4, <2>5, <2>6, WorkGoesOn
<1>9. QED
  BY <1>7, <1>8

LEMMA EdgeFetchStep ==
  ASSUME EdgeInv, NEW w \in EdgeWorkers, EdgePart!Fetch(w)
  PROVE  EdgeInv'
<1>0. w \in EdgePart!Busy
  BY DEF EdgePart!Fetch, EdgePart!At
<1> PICK o \in Task : o = task[w]
  BY <1>0, AtWork
<1> PICK t \in Todos : t = o.todo
  BY TaskFields
<1>1. /\ Head(t) = "fetch"
      /\ UNCHANGED <<rule, source, target, names, version, written, stored, edges, app, messages,
                     unsure>>
  BY DEF EdgePart!Fetch, EdgePart!At
<1>2. /\ GoneTask(o) /\ EdgePart!Rest(w) = Left(o, Tail(t))
      /\ (~disturbed /\ rule.from = "self" => OnTheWay(o))
  BY <1>0, AtWork
<1>3. t \in ToFetch /\ t \notin ToEnd /\ Tail(t) \in ToLook
  BY <1>1, ByHead, FetchTodo
<1>4. /\ Tail(t) \in Todos /\ Tail(t) # <<>>
      /\ Tail(t) \notin ToEnd \cup ToQuery \cup ToSweep \cup ToFetch \cup ToRemember \cup ToInsert
  BY <1>3, LookTodo DEF Todos
<1>5. CASE disturbed' = TRUE /\ EdgePart!Now(w, EdgePart!Idle)
  BY <1>0, <1>1, <1>5, GivesUp
<1>6. CASE EdgePart!Now(w, [EdgePart!Rest(w) EXCEPT !.ref = stored.ref]) /\ UNCHANGED disturbed
  <2>1. PICK r \in Task : r = EdgePart!Rest(w) /\ r.todo = Tail(t) /\ r.s = o.s
    BY <1>2, <1>4, LessTodo
  <2>2. PICK q \in {NoRef} \cup Ref : q = stored.ref
    BY DEF EdgeInv, EdgeType, Source
  <2>3. PICK x \in Task : x = [r EXCEPT !.ref = q] /\ x.todo = Tail(t) /\ x.s = o.s /\ x.ref = q
    <3>1. PICK x \in Task : x = [r EXCEPT !.ref = q]
      BY DEF Task
    <3>2. x.todo = r.todo /\ x.s = r.s /\ x.ref = q
      BY <3>1, TaskFields
    <3>3. QED
      BY <2>1, <3>1, <3>2
  <2>4. task' = [task EXCEPT ![w] = x]
    BY <1>4, <1>6, <2>1, <2>2, <2>3 DEF EdgePart!Now
  <2>5. GoneTask(x) /\ MayRemember(x)
    BY <1>2, <1>3, <1>4, <2>3 DEF GoneTask, MayRemember
  <2>6. ASSUME ~disturbed', rule.from = "self" PROVE OnTheWay(x)'
    <3>1. OnTheWay(o)
      BY <1>2, <1>6, <2>6
    <3>2. stored = source /\ edges = {} /\ o.s = source
      BY <1>3, <3>1 DEF OnTheWay
    <3>3. QED
      BY <1>1, <1>4, <2>2, <2>3, <3>2 DEF OnTheWay
  <2>7. /\ edges' \subseteq Ref /\ app' \in BOOLEAN /\ names' \in [ConfigNames -> Nat]
        /\ \A n \in ConfigNames \ unsure : NameKnown(n)'
        /\ disturbed' \in BOOLEAN
    BY <1>1, <1>6 DEF EdgeInv, EdgeType, NameInv, NameKnown
  <2>8. x \in {EdgePart!Idle} \cup Task
    BY <2>3
  <2>9. QED
    BY <1>1, <1>6, <2>3, <2>4, <2>5, <2>6, <2>7, <2>8, WorkGoesOn
<1>7. QED
  BY <1>5, <1>6 DEF EdgePart!Fetch

\* A lookup that gives an incarnation.
LEMMA FoundStep ==
  ASSUME EdgeInv, NEW w \in EdgeWorkers, EdgePart!At(w, "lookup"), task[w].ref # NoRef,
         NEW i \in Nat, NEW steps \in ToInsert \cup ToRemember, EdgePart!Found(w, i, steps),
         steps \in ToRemember => task[w].ref[1] \in unsure \/ ~target[task[w].ref[1]].live,
         (rule.by = "name" /\ task[w].ref[1] \notin unsure /\ target[task[w].ref[1]].live)
           => i = target[task[w].ref[1]].inc,
         rule.by \in {"uid", "label"} => i = task[w].ref[2],
         UNCHANGED <<rule, source, target, names, version, written, stored, edges, app, messages,
                     unsure, disturbed>>
  PROVE  EdgeInv'
<1>0. w \in EdgePart!Busy
  BY DEF EdgePart!At
<1> PICK o \in Task : o = task[w]
  BY <1>0, AtWork
<1> PICK t \in Todos : t = o.todo
  BY TaskFields
<1>1. GoneTask(o) /\ (~disturbed /\ rule.from = "self" => OnTheWay(o))
  BY <1>0, AtWork
<1>2. t \in ToLook /\ t \notin ToEnd
  BY ByHead, LookTodo DEF EdgePart!At
<1>3. o.ref \in Ref /\ o.ref[1] \in ConfigNames /\ o.ref = <<o.ref[1], o.ref[2]>>
  BY TaskFields, RefsArePairs
<1>4. PICK e \in Ref : e = <<o.ref[1], i>> /\ e[1] = o.ref[1] /\ e[2] = i
  <2>1. PICK e \in Ref : e = <<o.ref[1], i>>
    BY <1>3 DEF Ref
  <2>2. QED
    BY <2>1
<1>5. /\ steps \in Todos /\ steps # <<>>
      /\ steps \notin ToEnd \cup ToQuery \cup ToSweep \cup ToFetch \cup ToLook
  BY RememberTodo, InsertTodo DEF Todos
<1>6. PICK x \in Task : x = [o EXCEPT !.ref = e, !.todo = steps]
                        /\ x.todo = steps /\ x.s = o.s /\ x.ref = e
  <2>1. PICK x \in Task : x = [o EXCEPT !.ref = e, !.todo = steps]
    BY <1>5 DEF Task
  <2>2. x.todo = steps /\ x.s = o.s /\ x.ref = e
    BY <2>1, TaskFields
  <2>3. QED
    BY <2>1, <2>2
<1>7. task' = [task EXCEPT ![w] = x]
  <2>1. x = [task[w] EXCEPT !.ref = <<@[1], i>>, !.todo = steps]
    BY <1>4, <1>6
  <2>2. QED
    BY <1>5, <1>6, <2>1 DEF EdgePart!Found, EdgePart!Now
<1>8. e # NoRef
  BY RefsArePairs
<1>9. GoneTask(x) /\ MayRemember(x)
  BY <1>1, <1>2, <1>4, <1>5, <1>6, <1>8 DEF GoneTask, MayRemember
<1>10. ASSUME ~disturbed', rule.from = "self" PROVE OnTheWay(x)'
  <2>1. o.s = source /\ edges = {} /\ o.ref = source.ref
    BY <1>1, <1>2, <1>10 DEF OnTheWay
  <2>2. rule.by \in {"uid", "label"} => e = source.ref
    BY <1>3, <1>4, <2>1
  <2>3. Right(e)
    BY <1>4, <2>1, <2>2 DEF Right
  <2>4. QED
    BY <1>5, <1>6, <2>1, <2>3 DEF OnTheWay, Right
<1>11. /\ edges' \subseteq Ref /\ app' \in BOOLEAN /\ names' \in [ConfigNames -> Nat]
       /\ \A n \in ConfigNames \ unsure : NameKnown(n)'
       /\ disturbed' \in BOOLEAN
  BY DEF EdgeInv, EdgeType, NameInv, NameKnown
<1>12. x \in {EdgePart!Idle} \cup Task
  BY <1>6
<1>13. QED
  BY <1>6, <1>7, <1>9, <1>10, <1>11, <1>12, WorkGoesOn

LEMMA EdgeLookupStep ==
  ASSUME EdgeInv, NEW w \in EdgeWorkers, EdgePart!Lookup(w)
  PROVE  EdgeInv'
<1>0. w \in EdgePart!Busy /\ EdgePart!At(w, "lookup")
  BY DEF EdgePart!Lookup, EdgePart!At
<1> PICK o \in Task : o = task[w]
  BY <1>0, AtWork
<1> PICK ref \in {NoRef} \cup Ref : ref = o.ref
  BY TaskFields
<1>1. UNCHANGED <<rule, source, target, names, version, written, stored, edges, app, messages,
                  unsure>>
  BY DEF EdgePart!Lookup
<1>2. o.todo \in ToLook /\ (~disturbed /\ rule.from = "self" => OnTheWay(o))
  BY <1>0, AtWork, ByHead DEF EdgePart!At
<1>3. EdgePart!Inserting \in ToInsert /\ EdgePart!Remembering \in ToRemember
  BY DEF EdgePart!Inserting, EdgePart!Remembering, ToInsert, ToRemember
<1>4. ref # NoRef => ref[1] \in ConfigNames /\ ref[2] \in Nat
  BY RefsArePairs
<1>5. /\ names \in [ConfigNames -> Nat] /\ written \in [ConfigNames -> SUBSET Nat]
      /\ disturbed \in BOOLEAN
  BY DEF EdgeInv, EdgeType
<1>6. ref # NoRef /\ ref[1] \notin unsure /\ target[ref[1]].live =>
        names[ref[1]] = target[ref[1]].inc /\ names[ref[1]] # 0
  BY <1>4, <1>5 DEF EdgeInv, NameInv, NameKnown
<1>7. CASE disturbed' = TRUE /\ EdgePart!Now(w, EdgePart!Idle)
  BY <1>0, <1>1, <1>7, GivesUp
<1>8. CASE /\ EdgePart!Now(w, EdgePart!Idle) /\ UNCHANGED disturbed
           /\ \/ ref = NoRef
              \/ /\ rule.by = "name" => names[ref[1]] = 0
                 /\ rule.by \in {"name", "query"}
  <2>1. task' = [task EXCEPT ![w] = EdgePart!Idle]
    BY <1>8, IdleIsNoTask DEF EdgePart!Now
  <2>2. (~disturbed' /\ rule.from = "self") => Settled'
    <3>1. SUFFICES ASSUME ~disturbed, rule.from = "self"
                   PROVE  edges = {} /\ (source.ref = NoRef \/ Unfound)
      BY <1>1, <1>8 DEF Settled, Unfound
    <3>2. edges = {} /\ source.ref = ref
      BY <1>2, <3>1 DEF OnTheWay
    <3>3. QED
      BY <1>6, <1>8, <3>2 DEF Unfound
  <2>3. /\ edges' \subseteq Ref /\ app' \in BOOLEAN /\ names' \in [ConfigNames -> Nat]
        /\ \A n \in ConfigNames \ unsure : NameKnown(n)'
    BY <1>1 DEF EdgeInv, EdgeType, NameInv, NameKnown
  <2>4. EdgePart!Idle \in {EdgePart!Idle} \cup Task /\ EdgePart!Idle \notin Task
    BY IdleIsNoTask
  <2>5. QED
    BY <1>1, <1>5, <1>8, <2>1, <2>2, <2>3, <2>4, WorkGoesOn
<1>9. CASE /\ ref # NoRef /\ UNCHANGED disturbed
           /\ \/ rule.by \in {"uid", "label"} /\ EdgePart!Found(w, ref[2], EdgePart!Inserting)
              \/ /\ rule.by = "name" /\ names[ref[1]] # 0
                 /\ EdgePart!Found(w, names[ref[1]], EdgePart!Inserting)
  <2>1. PICK i \in Nat : /\ EdgePart!Found(w, i, EdgePart!Inserting)
                         /\ \/ rule.by \in {"uid", "label"} /\ i = ref[2]
                            \/ rule.by = "name" /\ i = names[ref[1]]
    BY <1>4, <1>5, <1>9
  <2>2. PICK steps \in ToInsert : steps = EdgePart!Inserting
    BY <1>3
  <2>3. steps \notin ToRemember
    BY InsertTodo
  <2>4. QED
    BY <1>0, <1>1, <1>6, <1>9, <2>1, <2>2, <2>3, FoundStep
<1>10. ASSUME ref # NoRef, UNCHANGED disturbed,
              rule.by = "name" => names[ref[1]] = 0,
              rule.by \in {"name", "query"}, NEW i \in written[ref[1]],
              EdgePart!Found(w, i, IF rule.by = "name" THEN EdgePart!Remembering
                                   ELSE EdgePart!Inserting)
       PROVE  EdgeInv'
  <2>1. PICK j \in Nat : j = i
    BY <1>4, <1>5, <1>10
  <2>2. PICK steps \in ToInsert \cup ToRemember :
          /\ steps = IF rule.by = "name" THEN EdgePart!Remembering ELSE EdgePart!Inserting
          /\ steps \in ToRemember => rule.by = "name"
    BY <1>3, InsertTodo
  <2>3. EdgePart!Found(w, j, steps)
    BY <1>10, <2>1, <2>2
  <2>4. rule.by = "name" => ref[1] \in unsure \/ ~target[ref[1]].live
    BY <1>6, <1>10
  <2>5. QED
    BY <1>0, <1>1, <1>10, <2>2, <2>3, <2>4, FoundStep
<1>11. QED
  BY <1>7, <1>8, <1>9, <1>10 DEF EdgePart!Lookup

LEMMA EdgeRememberStep ==
  ASSUME EdgeInv, NEW w \in EdgeWorkers, EdgePart!Remember(w)
  PROVE  EdgeInv'
<1>0. w \in EdgePart!Busy
  BY DEF EdgePart!Remember, EdgePart!At
<1> PICK o \in Task : o = task[w]
  BY <1>0, AtWork
<1> PICK t \in Todos : t = o.todo
  BY TaskFields
<1>1. /\ Head(t) = "remember" /\ EdgePart!Now(w, EdgePart!Rest(w))
      /\ names' = [names EXCEPT ![o.ref[1]] = o.ref[2]]
      /\ UNCHANGED <<rule, source, target, version, written, stored, edges, app, messages,
                     disturbed, unsure>>
  BY DEF EdgePart!Remember, EdgePart!At
<1>2. /\ GoneTask(o) /\ MayRemember(o) /\ EdgePart!Rest(w) = Left(o, Tail(t))
      /\ (~disturbed /\ rule.from = "self" => OnTheWay(o))
  BY <1>0, AtWork
<1>3. t \in ToRemember /\ t \notin ToEnd /\ Tail(t) \in ToInsert
  BY <1>1, ByHead, RememberTodo
<1>4. /\ Tail(t) \in Todos /\ Tail(t) # <<>>
      /\ Tail(t) \notin ToEnd \cup ToQuery \cup ToSweep \cup ToFetch \cup ToLook \cup ToRemember
  BY <1>3, InsertTodo DEF Todos
<1>5. o.ref # NoRef /\ o.ref[1] \in ConfigNames /\ o.ref[2] \in Nat
  BY <1>2, <1>3, TaskFields, RefsArePairs DEF GoneTask
<1>6. /\ names' \in [ConfigNames -> Nat]
      /\ \A n \in ConfigNames \ unsure : NameKnown(n)'
  <2>1. o.ref[1] \in unsure \/ ~target[o.ref[1]].live
    BY <1>2, <1>3 DEF MayRemember
  <2>2. names \in [ConfigNames -> Nat] /\ \A n \in ConfigNames \ unsure : NameKnown(n)
    BY DEF EdgeInv, EdgeType, NameInv
  <2>3. names' \in [ConfigNames -> Nat]
    BY <1>1, <1>5, <2>2
  <2>4. ASSUME NEW n \in ConfigNames \ unsure PROVE NameKnown(n)'
    BY <1>1, <1>5, <2>1, <2>2 DEF NameKnown
  <2>5. QED
    BY <2>3, <2>4
<1>7. PICK x \in Task : x = EdgePart!Rest(w) /\ x.todo = Tail(t) /\ x.s = o.s /\ x.ref = o.ref
  BY <1>2, <1>4, LessTodo
<1>8. task' = [task EXCEPT ![w] = x]
  BY <1>1, <1>4, <1>7 DEF EdgePart!Now
<1>9. GoneTask(x) /\ MayRemember(x)
  BY <1>2, <1>3, <1>4, <1>5, <1>7 DEF GoneTask, MayRemember
<1>10. ASSUME ~disturbed', rule.from = "self" PROVE OnTheWay(x)'
  <2>1. o.s = source /\ edges = {} /\ Right(o.ref)
    BY <1>1, <1>2, <1>3, <1>10 DEF OnTheWay
  <2>2. QED
    BY <1>1, <1>4, <1>7, <2>1 DEF OnTheWay, Right
<1>11. edges' \subseteq Ref /\ app' \in BOOLEAN /\ disturbed' \in BOOLEAN
  BY <1>1 DEF EdgeInv, EdgeType
<1>12. x \in {EdgePart!Idle} \cup Task
  BY <1>7
<1>13. QED
  BY <1>1, <1>6, <1>7, <1>8, <1>9, <1>10, <1>11, <1>12, WorkGoesOn

LEMMA EdgeInsertStep ==
  ASSUME EdgeInv, NEW w \in EdgeWorkers, EdgePart!Insert(w)
  PROVE  EdgeInv'
<1>0. w \in EdgePart!Busy
  BY DEF EdgePart!Insert, EdgePart!At
<1> PICK o \in Task : o = task[w]
  BY <1>0, AtWork
<1> PICK t \in Todos : t = o.todo
  BY TaskFields
<1>1. /\ Head(t) = "insert" /\ EdgePart!Now(w, EdgePart!Rest(w))
      /\ UNCHANGED <<rule, source, target, names, version, written, stored, app, messages, unsure>>
      /\ \/ edges' = edges \cup {o.ref} /\ UNCHANGED disturbed
         \/ disturbed' = TRUE /\ UNCHANGED edges
  BY DEF EdgePart!Insert, EdgePart!At
<1>2. /\ GoneTask(o) /\ EdgePart!Rest(w) = Left(o, Tail(t))
      /\ (~disturbed /\ rule.from = "self" => OnTheWay(o))
  BY <1>0, AtWork
<1>3. t \in ToInsert /\ t \notin ToEnd /\ Tail(t) = <<>>
  BY <1>1, ByHead, InsertTodo
<1>4. o.ref \in Ref /\ ~o.s.gone
  BY <1>2, <1>3, TaskFields DEF GoneTask
<1>5. task' = [task EXCEPT ![w] = EdgePart!Idle]
  <2>1. Left(o, Tail(t)).todo = Tail(t)
    BY LessTodo
  <2>2. QED
    BY <1>1, <1>2, <1>3, <2>1 DEF EdgePart!Now
<1>6. (~disturbed' /\ rule.from = "self") => Settled'
  <2>1. SUFFICES ASSUME ~disturbed', rule.from = "self" PROVE Settled'
    OBVIOUS
  <2>2. edges' = edges \cup {o.ref} /\ UNCHANGED disturbed
    BY <1>1, <2>1
  <2>3. o.s = source /\ edges = {} /\ Right(o.ref)
    BY <1>2, <1>3, <2>1, <2>2 DEF OnTheWay
  <2>4. edges' = {o.ref} /\ ~source'.gone /\ Right(o.ref)'
    BY <1>1, <1>4, <2>2, <2>3 DEF Right
  <2>5. QED
    BY <2>4 DEF Settled
<1>7. /\ edges' \subseteq Ref /\ app' \in BOOLEAN /\ names' \in [ConfigNames -> Nat]
      /\ \A n \in ConfigNames \ unsure : NameKnown(n)'
      /\ disturbed' \in BOOLEAN /\ (disturbed => disturbed')
  <2>1. edges \subseteq Ref /\ disturbed \in BOOLEAN
    BY DEF EdgeInv, EdgeType
  <2>2. edges' \subseteq Ref /\ disturbed' \in BOOLEAN /\ (disturbed => disturbed')
    BY <1>1, <1>4, <2>1
  <2>3. /\ app' \in BOOLEAN /\ names' \in [ConfigNames -> Nat]
        /\ \A n \in ConfigNames \ unsure : NameKnown(n)'
    BY <1>1 DEF EdgeInv, EdgeType, NameInv, NameKnown
  <2>4. QED
    BY <2>2, <2>3
<1>8. EdgePart!Idle \in {EdgePart!Idle} \cup Task /\ EdgePart!Idle \notin Task
  BY IdleIsNoTask
<1>9. QED
  BY <1>1, <1>5, <1>6, <1>7, <1>8, WorkGoesOn

LEMMA EdgeStep ==
  ASSUME EdgeInv, EdgePart!Next \/ UNCHANGED edgeVars
  PROVE  EdgeInv'
<1>1. CASE UNCHANGED edgeVars
  BY <1>1 DEF edgeVars, EdgeInv, EdgeType, GoneInv, GoneTask, NameInv, NameKnown, MayRemember,
              Undisturbed, Alone, Settled, Unfound, OnTheWay, Right
<1>2. ASSUME NEW w \in EdgeWorkers, EdgePart!Work(w) PROVE EdgeInv'
  BY <1>2, EdgeWriteStep, EdgeQueryStep, EdgeRemoveStep, EdgeFetchStep, EdgeLookupStep,
     EdgeRememberStep, EdgeInsertStep DEF EdgePart!Work
<1>3. CASE EdgePart!Next
  BY <1>2, <1>3, SourceStep, AsideStep, TargetStep, TakeStep DEF EdgePart!Next
<1>4. QED
  BY <1>1, <1>3

\* What the invariant says at rest.
LEMMA EdgeSound ==
  ASSUME EdgeInv
  PROVE  EdgePart!EdgesMatch /\ EdgePart!NameFound
<1>1. EdgePart!NameFound
  BY DEF EdgeInv, NameInv, NameKnown, EdgePart!NameFound
<1>2. ASSUME EdgePart!Quiet, ~disturbed, rule.from = "self"
      PROVE  /\ source.gone \/ source.ref = NoRef => edges = {}
             /\ source.ref # NoRef => \A e \in edges : e[1] = source.ref[1]
             /\ (~source.gone /\ source.ref # NoRef /\ rule.by = "name"
                   /\ source.ref[1] \notin unsure /\ target[source.ref[1]].live)
                  => edges = {<<source.ref[1], target[source.ref[1]].inc>>}
             /\ (~source.gone /\ rule.by \in {"uid", "label"} /\ source.ref # NoRef)
                  => edges = {source.ref}
  <2>1. Settled /\ edges \subseteq Ref
    BY <1>2, BusyHaveTasks DEF EdgeInv, EdgeType, Undisturbed, EdgePart!Quiet
  <2>2. CASE edges = {}
    BY <2>1, <2>2 DEF Settled, Unfound
  <2>3. ASSUME NEW e \in edges, edges = {e}, Right(e), ~source.gone
        PROVE  /\ source.ref # NoRef /\ e[1] = source.ref[1]
               /\ (rule.by = "name" /\ e[1] \notin unsure /\ target[e[1]].live)
                     => e = <<e[1], target[e[1]].inc>>
               /\ rule.by \in {"uid", "label"} => e = source.ref
    BY <2>1, <2>3, RefsArePairs DEF Right
  <2>4. QED
    BY <2>1, <2>2, <2>3 DEF Settled
<1>3. EdgePart!EdgesMatch
  BY <1>2 DEF EdgePart!EdgesMatch
<1>4. QED
  BY <1>1, <1>3

(* The graph follows the cluster (business_label_syncer.go, trace_topology_syncer.go,
   k8sresource_relationships.go): at rest the members of an application are the
   workloads that live, the calls that are cached are written, and a resource has
   the edges it should have and no others, its names looked up as what bears them
   now; but for what dropped messages, crashes and disturbances leave behind. *)
THEOREM GraphAlwaysFollows == Spec => []GraphFollows
<1> DEFINE Inv == (part = "apps" => AppInv /\ CallsInv) /\ (part = "edges" => EdgeInv)
<1>1. Init => Inv
  BY AppStart, EdgeStart
<1>2. Inv /\ [Next]_allVars => Inv'
  <2>1. ASSUME Inv, [Next]_allVars, part' = "apps" PROVE AppInv' /\ CallsInv'
    <3>1. part = "apps"
      BY <2>1 DEF Next, allVars
    <3>2. QED
      BY <2>1, <3>1, AppSteps, AppStep
  <2>2. ASSUME Inv, [Next]_allVars, part' = "edges" PROVE EdgeInv'
    <3>1. part = "edges"
      BY <2>2 DEF Next, allVars
    <3>2. QED
      BY <2>2, <3>1, EdgeSteps, EdgeStep
  <2>3. QED
    BY <2>1, <2>2
<1>3. Inv => GraphFollows
  BY AppSound, EdgeSound DEF GraphFollows
<1> HIDE DEF Inv
<1>4. QED
  BY <1>1, <1>2, <1>3, PTL DEF Spec, allVars

-----------------------------------------------------------------------------
(* Functions that are defined by recursion on a count.                       *)

LEMMA HasLeast ==
  ASSUME NEW S, S \subseteq Nat, S # {}
  PROVE  \E x \in S : \A y \in S : x <= y
<1> DEFINE R == {ss \in Nat \X Nat : ss[1] < ss[2]}
<1>1. IsWellFoundedOn(R, Nat)
  BY NatLessThanWellFounded DEF OpToRel
<1>2. PICK x \in S : \A y \in S : <<y, x>> \notin R
  <2> HIDE DEF R
  <2>1. QED
    BY <1>1, WFMin
<1>3. \A y \in S : ~(y < x)
  BY <1>2
<1>4. QED
  BY <1>3

LEMMA HasGreatest ==
  ASSUME NEW S, S \subseteq Nat, S # {}, NEW b \in Nat, \A y \in S : y <= b
  PROVE  \E x \in S : \A y \in S : x >= y
<1> DEFINE Bounds == {n \in Nat : \A y \in S : y <= n}
<1>1. PICK x \in Bounds : \A y \in Bounds : x <= y
  <2>1. Bounds \subseteq Nat /\ Bounds # {}
    OBVIOUS
  <2> HIDE DEF Bounds
  <2>2. QED
    BY <2>1, HasLeast
<1>2. x \in S
  <2>1. SUFFICES ASSUME x \notin S PROVE FALSE
    OBVIOUS
  <2>2. PICK y \in S : TRUE
    OBVIOUS
  <2>3. y < x /\ x - 1 \in Nat /\ \A z \in S : z <= x - 1
    BY <2>1
  <2>4. QED
    BY <1>1, <2>3
<1>3. QED
  BY <1>2

\* n steps from b lead somewhere.
Leads(U, step, b, n) ==
  \E f \in [0..n -> U] : f[0] = b /\ \A k \in 1..n : f[k] = step[f[k - 1]]
LEMMA Iterates ==
  ASSUME NEW U, NEW step \in [U -> U], NEW b \in U, NEW n \in Nat
  PROVE  Leads(U, step, b, n)
<1> DEFINE Fails == {m \in Nat : ~Leads(U, step, b, m)}
<1>1. Leads(U, step, b, 0)
  <2>1. PICK f \in [0..0 -> U] : f = [k \in 0..0 |-> b]
    OBVIOUS
  <2>2. f[0] = b /\ \A k \in 1..0 : f[k] = step[f[k - 1]]
    BY <2>1
  <2>3. QED
    BY <2>2 DEF Leads
<1>2. ASSUME NEW m \in Nat, Leads(U, step, b, m) PROVE Leads(U, step, b, m + 1)
  <2>1. PICK f \in [0..m -> U] : f[0] = b /\ \A k \in 1..m : f[k] = step[f[k - 1]]
    BY <1>2 DEF Leads
  <2>2. PICK g \in [0..(m + 1) -> U] :
          g = [k \in 0..(m + 1) |-> IF k = m + 1 THEN step[f[m]] ELSE f[k]]
    <3>1. step[f[m]] \in U
      OBVIOUS
    <3>2. \A k \in 0..(m + 1) : k # m + 1 => f[k] \in U
      OBVIOUS
    <3>3. QED
      BY <3>1, <3>2
  <2>3. g[0] = b
    BY <2>1, <2>2
  <2>4. \A k \in 1..(m + 1) : g[k] = step[g[k - 1]]
    BY <2>1, <2>2
  <2>5. QED
    BY <2>3, <2>4 DEF Leads
<1>3. Fails = {}
  <2>1. SUFFICES ASSUME Fails # {} PROVE FALSE
    OBVIOUS
  <2>2. Fails \subseteq Nat
    OBVIOUS
  <2>3. PICK x \in Fails : \A y \in Fails : x <= y
    <3> HIDE DEF Fails
    <3>1. QED
      BY <2>1, <2>2, HasLeast
  <2>4. x \in Nat /\ ~Leads(U, step, b, x)
    OBVIOUS
  <2>5. x # 0
    BY <1>1, <2>4
  <2>6. x - 1 \in Nat /\ x - 1 \notin Fails
    BY <2>3, <2>4, <2>5
  <2>7. Leads(U, step, b, x - 1)
    BY <2>6
  <2>8. Leads(U, step, b, (x - 1) + 1)
    BY <1>2, <2>6, <2>7
  <2>9. (x - 1) + 1 = x
    BY <2>4
  <2>10. QED
    BY <2>4, <2>8, <2>9
<1>4. QED
  BY <1>3

-----------------------------------------------------------------------------
(* The walk from the resource of an alert.                                   *)

\* The resources of a graph next to some, the balls around the root, and what is
\* found within a number of hops.
Kept == WalkResources \ NonCore
Near(g, S) == {d \in g.live : \E s \in S : {s, d} \in g.edges}
Balls(g, n) ==
  LET ball[k \in 0..n] ==
        IF k = 0 THEN {WalkRoot} ELSE ball[k - 1] \cup (Near(g, ball[k - 1]) \cap Kept)
  IN ball
FoundIn(g, n) == Balls(g, n)[n] \ {WalkRoot}

LEMMA NearIs == \A S : Walk!Adjacent(S) = Near(graph, S)
BY DEF Walk!Adjacent, Near

LEMMA FoundIs == ASSUME NEW n PROVE Walk!Within(n) = FoundIn(graph, n)
BY DEF Walk!Within, Walk!Balls, Walk!Adjacent, Walk!Core, FoundIn, Balls, Near, Kept

LEMMA BallsUnrolled ==
  ASSUME NEW n \in Nat, graph.live \subseteq WalkResources
  PROVE  /\ Balls(graph, n)[0] = {WalkRoot}
         /\ \A k \in 1..n : Balls(graph, n)[k] =
              Balls(graph, n)[k - 1] \cup (Near(graph, Balls(graph, n)[k - 1]) \cap Kept)
<1> PICK U : U = SUBSET (WalkResources \cup {WalkRoot})
  OBVIOUS
<1>1. \A S \in U : S \cup (Near(graph, S) \cap Kept) \in U
  BY DEF Near
<1> PICK step \in [U -> U] : step = [S \in U |-> S \cup (Near(graph, S) \cap Kept)]
  BY <1>1
<1>2. PICK f \in [0..n -> U] : f[0] = {WalkRoot} /\ \A k \in 1..n : f[k] = step[f[k - 1]]
  <2>1. PICK b \in U : b = {WalkRoot}
    OBVIOUS
  <2>2. Leads(U, step, b, n)
    BY Iterates, Zenon
  <2>3. QED
    BY <2>1, <2>2, Zenon DEF Leads
<1>3. \A k \in 1..n : f[k] = f[k - 1] \cup (Near(graph, f[k - 1]) \cap Kept)
  <2>1. \A k \in 1..n : f[k - 1] \in U
    BY <1>2
  <2>2. QED
    BY <1>2, <2>1
<1>4. f = [k \in 0..n |-> IF k = 0 THEN {WalkRoot}
                          ELSE f[k - 1] \cup (Near(graph, f[k - 1]) \cap Kept)]
  BY <1>2, <1>3
<1>5. Balls(graph, n) =
        [k \in 0..n |-> IF k = 0 THEN {WalkRoot}
           ELSE Balls(graph, n)[k - 1] \cup (Near(graph, Balls(graph, n)[k - 1]) \cap Kept)]
  BY <1>4, Zenon DEF Balls
<1> DEFINE B == Balls(graph, n)
<1>6. B = [k \in 0..n |-> IF k = 0 THEN {WalkRoot}
                          ELSE B[k - 1] \cup (Near(graph, B[k - 1]) \cap Kept)]
  BY <1>5
<1> HIDE DEF B
<1>7. 0 \in 0..n /\ \A k \in 1..n : k \in 0..n /\ k # 0
  OBVIOUS
<1>8. B[0] = {WalkRoot}
  BY <1>6, <1>7, Zenon
<1>9. \A k \in 1..n : B[k] = B[k - 1] \cup (Near(graph, B[k - 1]) \cap Kept)
  <2>1. TAKE k \in 1..n
  <2>2. QED
    BY <1>6, <1>7, Zenon
<1>10. QED
  BY <1>8, <1>9 DEF B

\* What a walk of that many hops has seen, queried and left to query.
Still == ~cut /\ graphChanges = 0
Walked(hops) ==
  /\ depth \in 0..hops
  /\ seen = Balls(graph, hops)[depth] \cup next
  /\ todo \subseteq Balls(graph, hops)[depth]
  /\ next \subseteq Near(graph, Balls(graph, hops)[depth]) \cap Kept
  /\ Near(graph, Balls(graph, hops)[depth] \ todo) \cap Kept \subseteq seen
  /\ depth = hops => next = {}
AllFound == all = FoundIn(graph, Hops) /\ blast = Cardinality(all)
WalkType ==
  /\ graph \in [live: SUBSET WalkResources, edges: SUBSET Walk!Pairs]
  /\ cut \in BOOLEAN /\ graphChanges \in Nat
\* Each resource that is seen is counted once.
Counted ==
  /\ WalkRoot \in seen /\ seen \subseteq WalkResources \cup {WalkRoot}
  /\ found = Cardinality(seen \ {WalkRoot})
WalkInv ==
  /\ WalkType
  /\ stage = "resolve" => seen = {}
  /\ stage \in {"all", "direct"} => Counted
  /\ Still /\ stage = "all" => Walked(Hops)
  /\ Still /\ stage = "direct" => Walked(1) /\ AllFound
  /\ Still /\ stage = "apps" /\ seen # {} => AllFound /\ direct = FoundIn(graph, 1)

LEMMA WalkStarts ==
  ASSUME WalkType, NEW s, Walk!Walk(s), UNCHANGED graph, NEW hops \in Nat
  PROVE  Counted' /\ Walked(hops)'
<1>1. depth' = 0 /\ todo' = {WalkRoot} /\ next' = {} /\ seen' = {WalkRoot} /\ found' = 0
  BY DEF Walk!Walk
<1>2. Counted'
  <2>1. seen' \ {WalkRoot} = {}
    BY <1>1
  <2>2. QED
    BY <1>1, <2>1, FS_EmptySet DEF Counted
<1>3. Balls(graph, hops)[0] = {WalkRoot}
  BY BallsUnrolled DEF WalkType
<1>4. Walked(hops)'
  <2>1. Balls(graph', hops)[depth'] = {WalkRoot}
    BY <1>1, <1>3, Zenon
  <2>2. {WalkRoot} \ {WalkRoot} = {} /\ Near(graph', {}) = {}
    BY DEF Near
  <2>3. Near(graph', Balls(graph', hops)[depth'] \ todo') = {}
    BY <1>1, <2>1, <2>2, Zenon
  <2>4. QED
    BY <1>1, <2>1, <2>3 DEF Walked
<1>5. QED
  BY <1>2, <1>4

LEMMA WalkCounts ==
  ASSUME WalkType, Counted, NEW rows, rows \subseteq WalkResources,
         seen' = seen \cup Walk!New(rows), found' = found + Walk!Cardinality(Walk!New(rows))
  PROVE  Counted'
<1> PICK new : new = Walk!New(rows)
  OBVIOUS
<1>1. new \subseteq WalkResources /\ new \cap seen = {}
  BY DEF Walk!New
<1>2. Walk!Cardinality(new) = Cardinality(new)
  BY DEF Cardinality, Walk!Cardinality
<1> PICK old : old = seen \ {WalkRoot}
  OBVIOUS
<1>3. old \subseteq WalkResources /\ old \cap new = {} /\ WalkRoot \notin new
  BY <1>1 DEF Counted
<1>4. IsFiniteSet(old) /\ IsFiniteSet(new)
  BY <1>1, <1>3, GraphAssumption, FS_Subset
<1>5. Cardinality(old \cup new) = Cardinality(old) + Cardinality(new)
  <2>1. Cardinality(old) \in Nat /\ Cardinality(new) \in Nat
    BY <1>4, FS_CardinalityType
  <2>2. Cardinality(old \cup new) = Cardinality(old) + Cardinality(new) - Cardinality({})
    BY <1>3, <1>4, FS_Union
  <2>3. QED
    BY <2>1, <2>2, FS_EmptySet
<1>6. seen' \ {WalkRoot} = old \cup new
  BY <1>3
<1>7. QED
  BY <1>1, <1>2, <1>5, <1>6 DEF Counted

\* A query that is answered in full.
LEMMA QueryWalks ==
  ASSUME NEW hops \in Nat, NEW batch, batch \subseteq todo, Walked(hops), depth < hops,
         next' = next \cup Walk!New(Near(graph, batch)),
         seen' = seen \cup Walk!New(Near(graph, batch)), todo' = todo \ batch,
         UNCHANGED <<graph, depth>>
  PROVE  Walked(hops)'
<1> PICK ball : ball = Balls(graph, hops)[depth]
  OBVIOUS
<1>1. Balls(graph', hops)[depth'] = ball
  BY Zenon
<1>2. \A S : Near(graph', S) = Near(graph, S)
  BY Zenon
<1>3. \A S, T : S \subseteq T => Near(graph, S) \subseteq Near(graph, T)
  BY DEF Near
<1>4. \A S, T : Near(graph, S \cup T) = Near(graph, S) \cup Near(graph, T)
  BY DEF Near
<1>5. /\ depth \in 0..hops /\ seen = ball \cup next /\ todo \subseteq ball
      /\ next \subseteq Near(graph, ball) \cap Kept
      /\ Near(graph, ball \ todo) \cap Kept \subseteq seen
  BY DEF Walked
<1>6. ball \ todo' \subseteq (ball \ todo) \cup batch
  OBVIOUS
<1>7. Near(graph, ball \ todo') \subseteq Near(graph, ball \ todo) \cup Near(graph, batch)
  BY <1>3, <1>4, <1>6
<1>8. Near(graph, batch) \subseteq Near(graph, ball)
  BY <1>3, <1>5
<1>9. /\ Near(graph, batch) \cap Kept \subseteq seen'
      /\ seen' = ball \cup next'
      /\ next' \subseteq Near(graph, ball) \cap Kept
  BY <1>5, <1>8 DEF Walk!New, Walk!Core, Kept
<1>10. /\ depth' \in 0..hops /\ todo' \subseteq ball /\ depth' # hops
       /\ Near(graph, ball \ todo') \cap Kept \subseteq seen'
  <2>1. depth' = depth /\ depth \in Nat /\ todo' \subseteq ball
    BY <1>5
  <2>2. seen \subseteq seen'
    OBVIOUS
  <2>3. Near(graph, ball \ todo') \cap Kept \subseteq seen'
    BY <1>5, <1>7, <1>9, <2>2
  <2>4. QED
    BY <1>5, <2>1, <2>3
<1>11. QED
  BY <1>1, <1>2, <1>9, <1>10, Zenon DEF Walked

\* The hops of a walk are over.
LEMMA WalkDeepens ==
  ASSUME WalkType, NEW hops \in Nat, Walked(hops), depth < hops, todo = {},
         depth' = depth + 1, todo' = next, next' = {}, UNCHANGED <<graph, seen>>
  PROVE  Walked(hops)'
<1> PICK ball : ball = Balls(graph, hops)[depth]
  OBVIOUS
<1> PICK wider : wider = Balls(graph, hops)[depth + 1]
  OBVIOUS
<1>1. Balls(graph', hops)[depth'] = wider
  BY Zenon
<1>2. \A S : Near(graph', S) = Near(graph, S)
  BY Zenon
<1>3. /\ depth \in 0..hops /\ seen = ball \cup next
      /\ next \subseteq Near(graph, ball) \cap Kept
      /\ Near(graph, ball) \cap Kept \subseteq seen
  <2>1. ball \ {} = ball
    OBVIOUS
  <2>2. QED
    BY <2>1 DEF Walked
<1>4. wider = ball \cup (Near(graph, ball) \cap Kept)
  <2>1. depth + 1 \in 1..hops /\ (depth + 1) - 1 = depth
    BY <1>3
  <2>2. graph.live \subseteq WalkResources
    BY DEF WalkType
  <2>3. QED
    BY <2>1, <2>2, BallsUnrolled
<1>5. wider = seen /\ next \subseteq wider
  BY <1>3, <1>4
<1>6. Near(graph, wider \ next) \subseteq Near(graph, ball)
  BY <1>3, <1>5 DEF Near
<1>7. /\ depth' \in 0..hops /\ seen' = wider \cup next' /\ todo' \subseteq wider
      /\ next' \subseteq Near(graph, wider) \cap Kept
      /\ Near(graph, wider \ todo') \cap Kept \subseteq seen'
  BY <1>3, <1>5, <1>6
<1>8. QED
  BY <1>1, <1>2, <1>7, Zenon DEF Walked

LEMMA WalkEnds ==
  ASSUME WalkType, NEW hops \in Nat, Walked(hops), depth = hops
  PROVE  seen \ {WalkRoot} = FoundIn(graph, hops)
<1>1. seen = Balls(graph, hops)[hops]
  BY DEF Walked
<1>2. QED
  BY <1>1 DEF FoundIn

LEMMA QueryStep ==
  ASSUME WalkInv, NEW s \in {"all", "direct"}, NEW hops \in Nat, Walk!Query(s, hops),
         s = "all" => hops = Hops, s = "direct" => hops = 1
  PROVE  WalkInv'
<1>1. /\ stage = s /\ depth < hops
      /\ UNCHANGED <<graph, stage, depth, all, direct, blast, graphChanges>>
  BY DEF Walk!Query
<1>2. PICK batch \in SUBSET todo :
        LET adjacent == Near(graph, batch)
        IN /\ \/ \E rows \in SUBSET adjacent :
                   /\ next' = next \cup Walk!New(rows) /\ seen' = seen \cup Walk!New(rows)
                   /\ found' = found + Walk!Cardinality(Walk!New(rows))
                   /\ cut' = (cut \/ rows # adjacent)
              \/ cut' = TRUE /\ UNCHANGED <<next, seen, found>>
           /\ todo' = todo \ batch
  <2>1. \A k, S : Walk!kSubset(k, S) \subseteq SUBSET S
    BY DEF Walk!kSubset
  <2>2. QED
    BY <2>1, NearIs DEF Walk!Query
<1>3. WalkType /\ Counted
  BY <1>1 DEF WalkInv
<1>4. WalkType' /\ Counted'
  <2>1. cut' \in BOOLEAN
    BY <1>2
  <2>2. WalkType'
    BY <1>1, <1>3, <2>1 DEF WalkType, Walk!Pairs
  <2>3. CASE UNCHANGED <<seen, found>>
    BY <1>3, <2>2, <2>3 DEF Counted
  <2>4. ASSUME NEW rows \in SUBSET Near(graph, batch), seen' = seen \cup Walk!New(rows),
               found' = found + Walk!Cardinality(Walk!New(rows))
        PROVE  Counted'
    <3>1. rows \subseteq WalkResources
      BY <1>3 DEF WalkType, Near
    <3>2. QED
      BY <1>3, <2>4, <3>1, WalkCounts
  <2>5. QED
    BY <1>2, <2>2, <2>3, <2>4
<1>5. ASSUME Still' PROVE Walked(hops)'
  <2>1. Still /\ ~cut'
    BY <1>1, <1>2, <1>3, <1>5 DEF Still, WalkType
  <2>2. Walked(hops)
    BY <1>1, <2>1 DEF WalkInv
  <2>3. /\ next' = next \cup Walk!New(Near(graph, batch))
        /\ seen' = seen \cup Walk!New(Near(graph, batch)) /\ todo' = todo \ batch
    BY <1>2, <2>1
  <2>4. QED
    BY <1>1, <2>2, <2>3, QueryWalks
<1>6. AllFound' = AllFound
  BY <1>1 DEF AllFound
<1>7. Still' => Still
  BY <1>1, <1>2, <1>3 DEF Still, WalkType
<1>8. QED
  BY <1>1, <1>3, <1>4, <1>5, <1>6, <1>7 DEF WalkInv

LEMMA DepthStep ==
  ASSUME WalkInv, NEW s \in {"all", "direct"}, NEW hops \in Nat, Walk!NextDepth(s, hops),
         s = "all" => hops = Hops, s = "direct" => hops = 1
  PROVE  WalkInv'
<1>1. /\ stage = s /\ depth < hops /\ todo = {}
      /\ depth' = depth + 1 /\ todo' = next /\ next' = {}
      /\ UNCHANGED <<graph, stage, seen, found, all, direct, blast, cut, graphChanges>>
  BY DEF Walk!NextDepth, Walk!Deeper
<1>2. WalkType /\ Counted
  BY <1>1 DEF WalkInv
<1>3. WalkType' /\ Counted'
  BY <1>1, <1>2 DEF WalkType, Counted, Walk!Pairs
<1>4. ASSUME Still' PROVE Walked(hops)'
  <2>1. Still
    BY <1>1, <1>4 DEF Still
  <2>2. Walked(hops)
    BY <1>1, <2>1 DEF WalkInv
  <2>3. QED
    BY <1>1, <1>2, <2>2, WalkDeepens
<1>5. AllFound' = AllFound
  BY <1>1 DEF AllFound
<1>6. Still' => Still
  BY <1>1 DEF Still
<1>7. QED
  BY <1>1, <1>2, <1>3, <1>4, <1>5, <1>6 DEF WalkInv

LEMMA WalkStep ==
  ASSUME WalkInv, Walk!Next \/ UNCHANGED impactVars
  PROVE  WalkInv'
<1>0. Hops \in Nat
  BY GraphAssumption
<1>1. CASE Walk!Change
  <2>1. /\ graphChanges' = graphChanges + 1
        /\ graph' \in [live: SUBSET WalkResources, edges: SUBSET Walk!Pairs]
        /\ stage \in {"all", "direct"} /\ UNCHANGED <<stage, seen, found, cut>>
    BY <1>1 DEF Walk!Change, Walk!walkVars, WalkInv, WalkType
  <2>2. WalkType' /\ ~Still'
    BY <2>1 DEF WalkInv, WalkType, Still, Walk!Pairs
  <2>3. QED
    BY <2>1, <2>2 DEF WalkInv, Counted
<1>2. CASE Walk!ResolveUID
  <2>1. stage = "resolve" /\ UNCHANGED <<graph, all, direct, blast, cut, graphChanges>>
    BY <1>2 DEF Walk!ResolveUID
  <2>2. WalkType /\ WalkType' /\ seen = {}
    BY <2>1 DEF WalkInv, WalkType, Walk!Pairs
  <2>3. CASE Walk!Walk("all")
    <3>1. Counted' /\ Walked(Hops)'
      BY <1>0, <2>1, <2>2, <2>3, WalkStarts
    <3>2. stage' = "all"
      BY <2>3 DEF Walk!Walk
    <3>3. QED
      BY <2>2, <3>1, <3>2 DEF WalkInv
  <2>4. CASE stage' = "apps" /\ UNCHANGED Walk!walkVars
    BY <2>2, <2>4 DEF WalkInv, Walk!walkVars
  <2>5. QED
    BY <1>2, <2>3, <2>4 DEF Walk!ResolveUID
<1>3. CASE Walk!Step("all", Hops)
  BY <1>0, <1>3, QueryStep, DepthStep DEF Walk!Step
<1>4. CASE Walk!Step("direct", 1)
  BY <1>4, QueryStep, DepthStep DEF Walk!Step
<1>5. CASE Walk!EndAll
  <2>1. /\ stage = "all" /\ depth = Hops /\ all' = seen \ {WalkRoot} /\ blast' = found
        /\ Walk!Walk("direct") /\ UNCHANGED <<graph, direct, cut, graphChanges>>
    BY <1>5 DEF Walk!EndAll, Walk!Ended
  <2>2. WalkType /\ WalkType' /\ Counted
    BY <2>1 DEF WalkInv, WalkType, Walk!Pairs
  <2>3. Counted' /\ Walked(1)' /\ stage' = "direct"
    BY <2>1, <2>2, WalkStarts DEF Walk!Walk
  <2>4. ASSUME Still' PROVE AllFound'
    <3>1. Walked(Hops)
      BY <2>1, <2>4 DEF WalkInv, Still
    <3>2. all' = FoundIn(graph, Hops) /\ blast' = Cardinality(all')
      BY <1>0, <2>1, <2>2, <3>1, WalkEnds DEF Counted
    <3>3. QED
      BY <2>1, <3>2 DEF AllFound
  <2>5. QED
    BY <2>2, <2>3, <2>4 DEF WalkInv
<1>6. CASE Walk!EndDirect
  <2>1. /\ stage = "direct" /\ depth = 1 /\ direct' = seen \ {WalkRoot} /\ stage' = "apps"
        /\ UNCHANGED <<graph, seen, all, blast, cut, graphChanges>>
    BY <1>6 DEF Walk!EndDirect, Walk!Ended, Walk!walkVars
  <2>2. WalkType /\ WalkType'
    BY <2>1 DEF WalkInv, WalkType, Walk!Pairs
  <2>3. ASSUME Still' PROVE AllFound' /\ direct' = FoundIn(graph', 1)
    <3>1. Walked(1) /\ AllFound
      BY <2>1, <2>3 DEF WalkInv, Still
    <3>2. direct' = FoundIn(graph, 1)
      BY <2>1, <2>2, <3>1, WalkEnds
    <3>3. QED
      BY <2>1, <3>1, <3>2 DEF AllFound
  <2>4. QED
    BY <2>1, <2>2, <2>3 DEF WalkInv
<1>7. CASE Walk!Applications \/ Walk!BuildBusinessImpactContext
  <2>1. stage' \in {"context", "done"} /\ UNCHANGED <<graph, cut, graphChanges>>
    BY <1>7 DEF Walk!Applications, Walk!BuildBusinessImpactContext
  <2>2. WalkType'
    BY <2>1 DEF WalkInv, WalkType, Walk!Pairs
  <2>3. QED
    BY <2>1, <2>2 DEF WalkInv
<1>8. CASE UNCHANGED impactVars
  <2>1. UNCHANGED <<graph, stage, depth, todo, next, seen, found, all, direct, blast, cut,
                    graphChanges>>
    BY <1>8 DEF impactVars
  <2>2. \A hops : Walked(hops)' = Walked(hops)
    BY <2>1, Zenon DEF Walked
  <2>3. AllFound' = AllFound /\ FoundIn(graph', 1) = FoundIn(graph, 1)
    BY <2>1 DEF AllFound
  <2>4. QED
    BY <2>1, <2>2, <2>3 DEF WalkInv, WalkType, Counted, Still, Walk!Pairs
<1>9. QED
  BY <1>1, <1>2, <1>3, <1>4, <1>5, <1>6, <1>7, <1>8 DEF Walk!Next

LEMMA WalkSound ==
  ASSUME WalkInv
  PROVE  Walk!BlastRadiusExact
<1>1. Walk!Cardinality(all) = Cardinality(all)
  BY DEF Cardinality, Walk!Cardinality
<1>2. Walk!Within(Hops) = FoundIn(graph, Hops) /\ Walk!Within(1) = FoundIn(graph, 1)
  BY FoundIs
<1>3. QED
  BY <1>1, <1>2 DEF WalkInv, Still, AllFound, Walk!BlastRadiusExact, Walk!Indirect

LEMMA WalkStart ==
  ASSUME Init, part = "walk"
  PROVE  WalkInv
<1>1. Walk!Init
  BY DEF Init, GraphInit
<1>2. /\ stage = "resolve" /\ seen = {} /\ cut = FALSE /\ graphChanges = 0
      /\ \E edges_ \in SUBSET Walk!Pairs : graph = [live |-> WalkResources, edges |-> edges_]
  BY <1>1 DEF Walk!Init
<1>3. WalkType
  <2>1. PICK es \in SUBSET Walk!Pairs : graph = [live |-> WalkResources, edges |-> es]
    BY <1>2
  <2>2. QED
    BY <1>2, <2>1 DEF WalkType
<1>4. QED
  BY <1>2, <1>3 DEF WalkInv

-----------------------------------------------------------------------------
(* The neighbours of the applications of an alert.                           *)

Named(n, as) == \E a \in as : a[1] = n
Listed ==
  stage = "done" =>
    \A c \in appCalls :
      /\ c[1] \in context[1] => Named(c[2][1], context[1] \cup context[2])
      /\ c[2] \in context[1] => Named(c[1][1], context[1] \cup context[2])

LEMMA NeighbourStep ==
  ASSUME Listed, Neighbour!Next \/ UNCHANGED impactVars
  PROVE  Listed'
<1>1. CASE UNCHANGED impactVars
  BY <1>1 DEF impactVars, Listed
<1>2. CASE Neighbour!BuildBusinessImpactContext
  <2>1. PICK D : D = Neighbour!DirectApps
    OBVIOUS
  <2>2. PICK near : near = Neighbour!Neighbours(D)
    OBVIOUS
  <2>3. PICK first : first = Neighbour!Found(near) \ D
    OBVIOUS
  <2>4. context'[1] = D /\ context'[2] = first /\ appCalls' = appCalls
    BY <1>2, <2>1, <2>2, <2>3 DEF Neighbour!BuildBusinessImpactContext
  <2>5. \A a \in near : Named(a[1], D \cup first)
    <3>1. ASSUME NEW a \in near PROVE \E b \in D \cup first : b[1] = a[1]
      <4>1. PICK b : b = <<a[1], "">>
        OBVIOUS
      <4>2. b \in D \cup first /\ b[1] = a[1]
        BY <2>3, <4>1 DEF Neighbour!Found
      <4>3. QED
        BY <4>2
    <3>2. QED
      BY <3>1 DEF Named
  <2>6. \A c \in appCalls : /\ c[1] \in D => c[2] \in near
                            /\ c[2] \in D => c[1] \in near
    BY <2>2 DEF Neighbour!Neighbours, Neighbour!Callers, Neighbour!Callees
  <2>7. QED
    BY <2>4, <2>5, <2>6 DEF Listed
<1>3. CASE ~Neighbour!BuildBusinessImpactContext /\ Neighbour!Next
  <2>1. stage' # "done"
    BY <1>3 DEF Neighbour!Next, Neighbour!Change, Neighbour!ResolveUID, Neighbour!Walk,
       Neighbour!Step, Neighbour!Query, Neighbour!NextDepth, Neighbour!EndAll,
       Neighbour!EndDirect, Neighbour!Applications
  <2>2. QED
    BY <2>1 DEF Listed
<1>4. QED
  BY <1>1, <1>2, <1>3

LEMMA NeighbourSound == ASSUME Listed PROVE Neighbour!NeighboursListed
BY DEF Listed, Named, Neighbour!NeighboursListed, Neighbour!NamesOf

LEMMA NeighbourStart == ASSUME Init, part = "neighbours" PROVE Listed
<1>1. Neighbour!Init
  BY DEF Init, GraphInit
<1>2. stage = "resolve"
  BY <1>1 DEF Neighbour!Init
<1>3. QED
  BY <1>2 DEF Listed

-----------------------------------------------------------------------------
(* The search around a resource.                                             *)

Ways == {"forward", "reversely"}
Lines == Nodes \X Nodes \X Types
\* The vertices next to some by the edges j, those reached from s, the rows of a
\* query and of several, the edges that touch some, the vertices that are shown.
Around(j, ns) ==
  {m \in Nodes : \E e \in j : (e[1] \in ns /\ e[2] = m) \/ (e[2] \in ns /\ e[1] = m)}
Top == Search!Max(Depths)
Reach(j, s) ==
  LET w[i \in 0..Top] == IF i = 0 THEN s ELSE w[i - 1] \cup Around(j, w[i - 1]) IN w
RowsOf(j, n, dir) ==
  IF dir = "forward" THEN {<<n, e[2], e[3]>> : e \in {f \in j : f[1] = n}}
  ELSE {<<n, e[1], e[3]>> : e \in {f \in j : f[2] = n}}
AllRows(j, L) == UNION {RowsOf(j, q[1], q[2]) : q \in L}
Touching(j, a, ns) ==
  {<<{e[1], e[2]}, e[3]>> : e \in {f \in j : {f[1], f[2]} \subseteq a /\ {f[1], f[2]} \cap ns # {}}}
Showing(es, ns) == IF UNION {e[1] : e \in es} = {} THEN ns ELSE UNION {e[1] : e \in es}

SearchRecord == [stage: {"idle", "hops", "fetch", "build", "answered"}, start: SUBSET Nodes,
  depth: Depths \cup {0}, wanted: Wanted \cup {{}}, hop: Nat, todo: SUBSET (Nodes \X Ways),
  next: SUBSET Nodes, seen: SUBSET Nodes, raw: SUBSET Lines,
  nodes: SUBSET Nodes, edges: SUBSET ((SUBSET Nodes) \X Types)]
SearchType ==
  /\ joined \subseteq Lines /\ alive \subseteq Nodes /\ alive \subseteq everAlive
  /\ steady \in BOOLEAN /\ search \in SearchRecord
  /\ search.stage # "idle" => search.depth \in Depths
ShownLive ==
  /\ search.stage \in {"hops", "fetch"} => search.nodes = {} /\ search.edges = {}
  /\ search.stage = "build" => search.edges = {}
  /\ search.nodes \subseteq everAlive
  /\ \A e \in search.edges : e[1] \subseteq everAlive

\* A search of a still graph, by what the vertices near are that the hops before
\* this one reached; and what is known after the hops, and after the query of the vertices.
Hopping(near) ==
  /\ search.hop \in 1..search.depth
  /\ search.seen = near \cup search.next /\ search.next \cap near = {}
  /\ search.next \subseteq Around(joined, near)
  /\ search.todo \subseteq near \X Ways
  /\ search.raw = AllRows(joined, (near \X Ways) \ search.todo)
  /\ \A r \in search.raw : r[2] \in search.seen
AllRaw(near) == search.raw = AllRows(joined, near \X Ways)
Exact(near, reached) ==
  /\ search.edges = Touching(joined, alive, near)
  /\ search.nodes = Showing(search.edges, reached \cap alive) \cap search.wanted
Reached(k) == Reach(joined, search.start)[k]
SearchInv ==
  /\ SearchType /\ ShownLive
  /\ steady =>
       /\ search.stage = "hops" => Hopping(Reached(search.hop - 1))
       /\ search.stage = "fetch" =>
            search.seen = Reached(search.depth) /\ AllRaw(Reached(search.depth - 1))
       /\ search.stage = "build" =>
            search.nodes = Reached(search.depth) \cap alive /\ AllRaw(Reached(search.depth - 1))
       /\ search.stage = "answered" =>
            Exact(Reached(search.depth - 1), Reached(search.depth))

LEMMA TopIs ==
  ASSUME NEW d \in Depths
  PROVE  Top \in Nat /\ d \in 1..Top
<1>1. Depths \subseteq Nat /\ \A y \in Depths : y <= 10
  BY GraphAssumption
<1>2. \E x \in Depths : \A y \in Depths : x >= y
  <2>1. PICK S : S = Depths
    OBVIOUS
  <2>2. S \subseteq Nat /\ S # {} /\ 10 \in Nat /\ \A y \in S : y <= 10
    BY <1>1, <2>1
  <2>3. QED
    BY <2>1, <2>2, HasGreatest
<1>3. Top \in Depths /\ \A y \in Depths : Top >= y
  BY <1>2, Zenon DEF Top, Search!Max
<1>4. QED
  BY <1>1, <1>3, GraphAssumption

LEMMA ReachUnrolled ==
  ASSUME NEW j, NEW s, s \subseteq Nodes, Top \in Nat
  PROVE  /\ Reach(j, s)[0] = s
         /\ \A k \in 1..Top : Reach(j, s)[k] = Reach(j, s)[k - 1] \cup Around(j, Reach(j, s)[k - 1])
<1> PICK U : U = SUBSET Nodes
  OBVIOUS
<1>1. \A S \in U : S \cup Around(j, S) \in U
  BY DEF Around
<1> PICK step \in [U -> U] : step = [S \in U |-> S \cup Around(j, S)]
  BY <1>1
<1> PICK n : n = Top
  OBVIOUS
<1>2. PICK f \in [0..n -> U] : f[0] = s /\ \A k \in 1..n : f[k] = step[f[k - 1]]
  <2>1. s \in U /\ n \in Nat
    OBVIOUS
  <2>2. Leads(U, step, s, n)
    BY <2>1, Iterates, Zenon
  <2>3. QED
    BY <2>2, Zenon DEF Leads
<1>3. \A k \in 1..n : f[k] = f[k - 1] \cup Around(j, f[k - 1])
  <2>1. \A k \in 1..n : f[k - 1] \in U
    BY <1>2
  <2>2. QED
    BY <1>2, <2>1
<1>4. f = [k \in 0..n |-> IF k = 0 THEN s ELSE f[k - 1] \cup Around(j, f[k - 1])]
  BY <1>2, <1>3
<1> DEFINE W == Reach(j, s)
<1>5. W = [k \in 0..n |-> IF k = 0 THEN s ELSE W[k - 1] \cup Around(j, W[k - 1])]
  <2>1. Reach(j, s) = [k \in 0..Top |-> IF k = 0 THEN s
           ELSE Reach(j, s)[k - 1] \cup Around(j, Reach(j, s)[k - 1])]
    <3>1. f = [k \in 0..Top |-> IF k = 0 THEN s ELSE f[k - 1] \cup Around(j, f[k - 1])]
      BY <1>4, Zenon
    <3>2. QED
      BY <3>1, Zenon DEF Reach
  <2>2. QED
    BY <2>1, Zenon
<1> HIDE DEF W
<1>6. 0 \in 0..n /\ \A k \in 1..n : k \in 0..n /\ k # 0
  OBVIOUS
<1>7. W[0] = s
  BY <1>5, <1>6, Zenon
<1>8. \A k \in 1..n : W[k] = W[k - 1] \cup Around(j, W[k - 1])
  <2>1. TAKE k \in 1..n
  <2>2. QED
    BY <1>5, <1>6, Zenon
<1>9. QED
  BY <1>7, <1>8, Zenon DEF W

LEMMA ReachInNodes ==
  ASSUME NEW j, NEW s, s \subseteq Nodes, Top \in Nat, NEW d \in 1..Top
  PROVE  Reach(j, s)[d] \subseteq Nodes
<1> DEFINE W == Reach(j, s)
<1>1. W[0] = s /\ \A k \in 1..Top : W[k] = W[k - 1] \cup Around(j, W[k - 1])
  BY ReachUnrolled
<1> HIDE DEF W
<1> DEFINE Bad == {k \in 0..Top : ~(W[k] \subseteq Nodes)}
<1>2. Bad = {}
  <2>1. SUFFICES ASSUME Bad # {} PROVE FALSE
    OBVIOUS
  <2>2. Bad \subseteq Nat
    OBVIOUS
  <2>3. PICK x \in Bad : \A y \in Bad : x <= y
    <3> HIDE DEF Bad
    <3>1. QED
      BY <2>1, <2>2, HasLeast
  <2>4. x \in 1..Top /\ ~(W[x] \subseteq Nodes)
    BY <1>1
  <2>5. x - 1 \in 0..Top /\ x - 1 \notin Bad
    BY <2>3, <2>4
  <2>6. W[x - 1] \subseteq Nodes
    BY <2>5
  <2>7. W[x] = W[x - 1] \cup Around(j, W[x - 1])
    BY <1>1, <2>4
  <2>8. QED
    BY <2>4, <2>6, <2>7 DEF Around
<1>3. QED
  BY <1>2 DEF W

\* Once a hop reaches nothing new no later one does.
LEMMA ReachSettles ==
  ASSUME NEW j, NEW s, s \subseteq Nodes, Top \in Nat, NEW h \in 1..Top,
         Reach(j, s)[h] = Reach(j, s)[h - 1], NEW d \in h..Top
  PROVE  Reach(j, s)[d] = Reach(j, s)[h - 1]
<1> DEFINE W == Reach(j, s)
<1>1. \A k \in 1..Top : W[k] = W[k - 1] \cup Around(j, W[k - 1])
  BY ReachUnrolled
<1>2. W[h] = W[h - 1]
  OBVIOUS
<1> HIDE DEF W
<1> DEFINE Bad == {k \in h..Top : W[k] # W[h - 1]}
<1>3. Bad = {}
  <2>1. SUFFICES ASSUME Bad # {} PROVE FALSE
    OBVIOUS
  <2>2. Bad \subseteq Nat
    OBVIOUS
  <2>3. PICK x \in Bad : \A y \in Bad : x <= y
    <3> HIDE DEF Bad
    <3>1. QED
      BY <2>1, <2>2, HasLeast
  <2>4. x \in h..Top /\ x # h /\ W[x] # W[h - 1]
    BY <1>2
  <2>5. x - 1 \in h..Top /\ x \in 1..Top /\ x - 1 \notin Bad
    BY <2>3, <2>4
  <2>6. W[x - 1] = W[h - 1]
    BY <2>5
  <2>7. W[x] = W[h]
    <3>1. W[x] = W[x - 1] \cup Around(j, W[x - 1]) /\ W[h] = W[h - 1] \cup Around(j, W[h - 1])
      BY <1>1, <2>5
    <3>2. QED
      BY <2>6, <3>1, Zenon
  <2>8. QED
    BY <1>2, <2>4, <2>7
<1>4. QED
  BY <1>3 DEF W

LEMMA RowsReach ==
  ASSUME NEW j, j \subseteq Lines, NEW near, near \subseteq Nodes
  PROVE  \A n \in near, dir \in Ways : \A r \in RowsOf(j, n, dir) :
           r \in Lines /\ r[1] \in near /\ r[2] \in Around(j, near)
<1>1. ASSUME NEW n \in near, NEW dir \in Ways, NEW r \in RowsOf(j, n, dir)
      PROVE  r \in Lines /\ r[1] \in near /\ r[2] \in Around(j, near)
  <2>1. CASE dir = "forward"
    <3>1. PICK e \in j : e[1] = n /\ r = <<n, e[2], e[3]>>
      BY <2>1 DEF RowsOf
    <3>2. e \in Lines
      OBVIOUS
    <3>3. QED
      BY <3>1, <3>2 DEF Lines, Around
  <2>2. CASE dir # "forward"
    <3>1. PICK e \in j : e[2] = n /\ r = <<n, e[1], e[3]>>
      BY <2>2 DEF RowsOf
    <3>2. e \in Lines
      OBVIOUS
    <3>3. QED
      BY <3>1, <3>2 DEF Lines, Around
  <2>3. QED
    BY <2>1, <2>2
<1>2. QED
  BY <1>1

LEMMA AroundHasRows ==
  ASSUME NEW j, j \subseteq Lines, NEW near, near \subseteq Nodes, NEW m \in Around(j, near)
  PROVE  \E r \in AllRows(j, near \X Ways) : r[2] = m
<1>1. PICK e \in j : (e[1] \in near /\ e[2] = m) \/ (e[2] \in near /\ e[1] = m)
  BY DEF Around
<1>2. CASE e[1] \in near /\ e[2] = m
  <2>1. PICK r : r = <<e[1], e[2], e[3]>>
    OBVIOUS
  <2>2. r \in RowsOf(j, e[1], "forward") /\ r[2] = m
    BY <1>2, <2>1 DEF RowsOf
  <2>3. PICK q \in near \X Ways : q = <<e[1], "forward">>
    BY <1>2 DEF Ways
  <2>4. r \in AllRows(j, near \X Ways)
    BY <2>2, <2>3 DEF AllRows
  <2>5. QED
    BY <2>2, <2>4
<1>3. CASE e[2] \in near /\ e[1] = m
  <2>1. PICK r : r = <<e[2], e[1], e[3]>>
    OBVIOUS
  <2>2. r \in RowsOf(j, e[2], "reversely") /\ r[2] = m
    BY <1>3, <2>1 DEF RowsOf
  <2>3. PICK q \in near \X Ways : q = <<e[2], "reversely">>
    BY <1>3 DEF Ways
  <2>4. r \in AllRows(j, near \X Ways)
    BY <2>2, <2>3 DEF AllRows
  <2>5. QED
    BY <2>2, <2>4
<1>4. QED
  BY <1>1, <1>2, <1>3

\* The rows between the vertices that are shown are the edges that touch those of
\* which the edges were asked for.
LEMMA RowsTouch ==
  ASSUME NEW j, j \subseteq Lines, NEW near, near \subseteq Nodes, NEW a,
         NEW ns, ns = (near \cup Around(j, near)) \cap a
  PROVE  Search!Between(AllRows(j, near \X Ways), ns) = Touching(j, a, near)
<1> PICK raw : raw = AllRows(j, near \X Ways)
  OBVIOUS
<1>1. ASSUME NEW x \in Search!Between(raw, ns) PROVE x \in Touching(j, a, near)
  <2>1. PICK r \in raw : r[1] \in ns /\ r[2] \in ns /\ x = <<{r[1], r[2]}, r[3]>>
    BY DEF Search!Between
  <2>2. PICK q \in near \X Ways : r \in RowsOf(j, q[1], q[2])
    BY DEF AllRows
  <2>3. PICK e \in j : \/ e[1] = q[1] /\ r = <<q[1], e[2], e[3]>>
                       \/ e[2] = q[1] /\ r = <<q[1], e[1], e[3]>>
    BY <2>2 DEF RowsOf
  <2>4. q[1] \in near /\ r[1] \in a /\ r[2] \in a
    BY <2>1
  <2>5. {e[1], e[2]} = {r[1], r[2]} /\ e[3] = r[3] /\ q[1] \in {e[1], e[2]}
    BY <2>3
  <2>6. x = <<{e[1], e[2]}, e[3]>>
    BY <2>1, <2>5
  <2>7. {e[1], e[2]} \subseteq a /\ {e[1], e[2]} \cap near # {}
    BY <2>4, <2>5
  <2>8. QED
    BY <2>6, <2>7 DEF Touching
<1>2. ASSUME NEW x \in Touching(j, a, near) PROVE x \in Search!Between(raw, ns)
  <2>1. PICK e \in j : /\ {e[1], e[2]} \subseteq a /\ {e[1], e[2]} \cap near # {}
                       /\ x = <<{e[1], e[2]}, e[3]>>
    BY DEF Touching
  <2>2. e \in Lines
    OBVIOUS
  <2>3. PICK r : \/ e[1] \in near /\ r = <<e[1], e[2], e[3]>>
                 \/ e[2] \in near /\ r = <<e[2], e[1], e[3]>>
    BY <2>1
  <2>4. PICK q \in near \X Ways : r \in RowsOf(j, q[1], q[2])
    <3>1. CASE e[1] \in near /\ r = <<e[1], e[2], e[3]>>
      <4>1. PICK q \in near \X Ways : q = <<e[1], "forward">>
        BY <3>1 DEF Ways
      <4>2. r \in RowsOf(j, q[1], q[2])
        BY <3>1, <4>1 DEF RowsOf
      <4>3. QED
        BY <4>2
    <3>2. CASE e[2] \in near /\ r = <<e[2], e[1], e[3]>>
      <4>1. PICK q \in near \X Ways : q = <<e[2], "reversely">>
        BY <3>2 DEF Ways
      <4>2. r \in RowsOf(j, q[1], q[2])
        BY <3>2, <4>1 DEF RowsOf
      <4>3. QED
        BY <4>2
    <3>3. QED
      BY <2>3, <3>1, <3>2
  <2>5. r \in raw
    BY <2>4 DEF AllRows
  <2>6. e[1] \in near \cup Around(j, near) /\ e[2] \in near \cup Around(j, near)
    BY <2>2, <2>3 DEF Around, Lines
  <2>7. {r[1], r[2]} = {e[1], e[2]} /\ r[3] = e[3]
    BY <2>3
  <2>8. r[1] \in ns /\ r[2] \in ns /\ x = <<{r[1], r[2]}, r[3]>>
    BY <2>1, <2>6, <2>7
  <2>9. QED
    BY <2>5, <2>8 DEF Search!Between
<1>3. QED
  BY <1>1, <1>2

LEMMA SearchFields ==
  ASSUME SearchType
  PROVE  /\ search.stage \in {"idle", "hops", "fetch", "build", "answered"}
         /\ search.start \subseteq Nodes /\ search.depth \in Nat /\ search.hop \in Nat
         /\ search.todo \subseteq Nodes \X Ways /\ search.next \subseteq Nodes
         /\ search.seen \subseteq Nodes /\ search.raw \subseteq Lines /\ search.nodes \subseteq Nodes
<1>1. Depths \subseteq Nat
  BY GraphAssumption
<1>2. search \in SearchRecord
  BY DEF SearchType
<1>3. /\ search.stage \in {"idle", "hops", "fetch", "build", "answered"}
      /\ search.start \subseteq Nodes /\ search.depth \in Depths \cup {0} /\ search.hop \in Nat
      /\ search.todo \subseteq Nodes \X Ways /\ search.next \subseteq Nodes
      /\ search.seen \subseteq Nodes /\ search.raw \subseteq Lines /\ search.nodes \subseteq Nodes
  BY <1>2 DEF SearchRecord
<1>4. search.depth \in Nat
  <2>1. PICK d : d = search.depth
    OBVIOUS
  <2>2. d \in Depths \cup {0}
    BY <1>2, <2>1 DEF SearchRecord
  <2>3. d \in Nat
    BY <1>1, <2>2
  <2>4. QED
    BY <2>1, <2>3
<1>5. QED
  BY <1>3, <1>4

\* The graph changes.
LEMMA MoveStep ==
  ASSUME SearchInv, joined' \subseteq Lines, alive' \subseteq alive, steady' = FALSE,
         UNCHANGED <<search, everAlive>>
  PROVE  SearchInv'
BY DEF SearchInv, SearchType, ShownLive, SearchRecord, Lines, Ways

LEMMA StartStep ==
  ASSUME SearchInv, NEW s \in Nodes, NEW d \in Depths, NEW w \in Wanted, Search!Start(s, d, w)
  PROVE  SearchInv'
<1>1. /\ search' = [stage |-> "hops", start |-> {s}, depth |-> d, wanted |-> w, hop |-> 1,
           todo |-> {s} \X Ways, next |-> {}, seen |-> {s}, raw |-> {}, nodes |-> {}, edges |-> {}]
      /\ everAlive' = alive /\ UNCHANGED <<joined, alive>> /\ steady' = TRUE
  BY DEF Search!Start, Search!NoSearch, Search!Level, Search!Directions, Ways
<1>2. SearchType' /\ ShownLive'
  <2>1. search' \in SearchRecord
    BY <1>1 DEF SearchRecord, Ways
  <2>2. joined \subseteq Lines /\ alive \subseteq Nodes
    BY DEF SearchInv, SearchType
  <2>3. QED
    BY <1>1, <2>1, <2>2 DEF SearchType, ShownLive
<1>3. Reach(joined, {s})[0] = {s}
  <2>1. PICK j : j = joined
    OBVIOUS
  <2>2. PICK S : S = {s}
    OBVIOUS
  <2>3. Reach(j, S)[0] = S
    BY <2>2, TopIs, ReachUnrolled
  <2>4. QED
    BY <2>1, <2>2, <2>3
<1>4. Hopping({s})'
  <2>1. 1 \in 1..d
    BY TopIs, GraphAssumption
  <2>2. AllRows(joined', {}) = {}
    BY DEF AllRows
  <2>3. ({s} \X Ways) \ ({s} \X Ways) = {}
    OBVIOUS
  <2>4. QED
    BY <1>1, <2>1, <2>2, <2>3 DEF Hopping
<1>5. Reached(search.hop - 1)' = {s}
  BY <1>1, <1>3 DEF Reached
<1>6. QED
  BY <1>1, <1>2, <1>4, <1>5 DEF SearchInv

LEMMA GoStep ==
  ASSUME SearchInv, NEW q \in search.todo, NEW rows, rows \in SUBSET RowsOf(joined, q[1], q[2]),
         Search!Go(q[1], q[2], rows)
  PROVE  SearchInv'
<1>0. SearchType /\ ShownLive
  BY DEF SearchInv
<1> PICK new : new = {r[2] : r \in rows} \ search.seen
  OBVIOUS
<1>1. /\ search.stage = "hops"
      /\ search' = [search EXCEPT !.todo = @ \ {<<q[1], q[2]>>}, !.next = @ \cup new,
                    !.seen = @ \cup new, !.raw = @ \cup rows]
      /\ steady' = (steady /\ rows = Search!Hits(q[1], q[2]))
      /\ UNCHANGED <<joined, alive, everAlive>>
  BY DEF Search!Go
<1>2. Search!Hits(q[1], q[2]) = RowsOf(joined, q[1], q[2])
  BY DEF Search!Hits, RowsOf
<1>3. q \in Nodes \X Ways /\ <<q[1], q[2]>> = q
  BY <1>0, SearchFields
<1>4. /\ search'.todo = search.todo \ {q} /\ search'.next = search.next \cup new
      /\ search'.seen = search.seen \cup new /\ search'.raw = search.raw \cup rows
      /\ search'.stage = "hops" /\ search'.start = search.start /\ search'.depth = search.depth
      /\ search'.wanted = search.wanted /\ search'.hop = search.hop
      /\ search'.nodes = search.nodes /\ search'.edges = search.edges
  BY <1>0, <1>1, <1>3 DEF SearchType, SearchRecord
<1> PICK j : j = joined
  OBVIOUS
<1>5. rows \subseteq Lines /\ \A r \in rows : r[2] \in Nodes
  <2>1. j \subseteq Lines
    BY <1>0 DEF SearchType
  <2>2. rows \subseteq Lines
    <3>1. PICK N : N = Nodes
      OBVIOUS
    <3>2. \A n \in N, dir \in Ways : \A r \in RowsOf(j, n, dir) : r \in Lines
      BY <2>1, <3>1, RowsReach
    <3>3. QED
      BY <1>3, <3>1, <3>2
  <2>3. QED
    BY <2>2 DEF Lines
<1>6. SearchType' /\ ShownLive'
  <2>1. new \subseteq Nodes
    BY <1>5
  <2>2. search' \in SearchRecord
    <3>1. search'.todo \subseteq Nodes \X Ways /\ search'.next \subseteq Nodes
          /\ search'.seen \subseteq Nodes /\ search'.raw \subseteq Lines
      BY <1>0, <1>4, <1>5, <2>1, SearchFields
    <3>2. QED
      BY <1>0, <1>1, <3>1 DEF SearchType, SearchRecord
  <2>3. QED
    BY <1>0, <1>1, <1>2, <1>4, <2>2 DEF SearchType, ShownLive
<1>7. ASSUME steady' PROVE Hopping(Reached(search.hop - 1))'
  <2> PICK near : near = Reached(search.hop - 1)
    OBVIOUS
  <2>1. steady /\ rows = RowsOf(j, q[1], q[2])
    BY <1>0, <1>1, <1>2, <1>7 DEF SearchType
  <2>2. Hopping(near)
    BY <1>1, <2>1 DEF SearchInv
  <2>3. Reached(search.hop - 1)' = near
    BY <1>1, <1>4 DEF Reached
  <2>4. q \in near \X Ways /\ near \subseteq Nodes
    BY <1>0, <2>2, SearchFields DEF Hopping
  <2>5. \A r \in rows : r[2] \in Around(j, near)
    <3>1. j \subseteq Lines
      BY <1>0 DEF SearchType
    <3>2. \A n \in near, dir \in Ways : \A r \in RowsOf(j, n, dir) : r[2] \in Around(j, near)
      BY <2>4, <3>1, RowsReach
    <3>3. QED
      BY <2>1, <2>4, <3>2
  <2>6. search'.raw = AllRows(j, (near \X Ways) \ search'.todo)
    <3>1. (near \X Ways) \ search'.todo = ((near \X Ways) \ search.todo) \cup {q}
      BY <1>4, <2>4
    <3>2. search.raw = AllRows(j, (near \X Ways) \ search.todo)
      BY <2>2 DEF Hopping
    <3>3. \A L : AllRows(j, L \cup {q}) = AllRows(j, L) \cup RowsOf(j, q[1], q[2])
      BY DEF AllRows
    <3>4. QED
      BY <1>4, <2>1, <3>1, <3>2, <3>3
  <2>7. /\ search'.hop \in 1..search'.depth
        /\ search'.seen = near \cup search'.next /\ search'.next \cap near = {}
        /\ search'.next \subseteq Around(j, near) /\ search'.todo \subseteq near \X Ways
    BY <1>4, <2>2, <2>5 DEF Hopping
  <2>8. \A r \in search'.raw : r[2] \in search'.seen
    BY <1>4, <2>2 DEF Hopping
  <2>9. QED
    BY <1>1, <2>3, <2>6, <2>7, <2>8 DEF Hopping
<1>8. QED
  BY <1>4, <1>6, <1>7 DEF SearchInv

\* The vertices and rows of all hops.
LEMMA HopStep ==
  ASSUME SearchInv, Search!Hop
  PROVE  SearchInv'
<1>0. SearchType /\ ShownLive
  BY DEF SearchInv
<1>1. /\ search.stage = "hops" /\ search.todo = {}
      /\ UNCHANGED <<joined, alive, everAlive, steady>>
      /\ \/ /\ search.hop < search.depth /\ search.next # {}
            /\ search' = [search EXCEPT !.hop = @ + 1, !.todo = search.next \X Ways, !.next = {}]
         \/ /\ ~(search.hop < search.depth /\ search.next # {})
            /\ search' = [search EXCEPT !.stage = "fetch", !.next = {}]
  BY DEF Search!Hop, Search!Deeper, Search!Level, Search!Directions, Ways
<1> PICK j : j = joined
  OBVIOUS
<1> PICK s : s = search.start
  OBVIOUS
<1> PICK h : h = search.hop
  OBVIOUS
<1> PICK d : d = search.depth
  OBVIOUS
<1>2. j \subseteq Lines /\ s \subseteq Nodes /\ d \in Depths /\ Top \in Nat /\ d \in 1..Top
  BY <1>0, <1>1, SearchFields, TopIs DEF SearchType
<1> PICK near : near = Reach(j, s)[h - 1]
  OBVIOUS
<1>3. ASSUME steady
      PROVE  /\ Hopping(near) /\ h \in 1..d /\ near \subseteq Nodes
             /\ search.seen = Reach(j, s)[h] /\ AllRaw(near)
  <2>1. Hopping(near)
    BY <1>1, <1>3 DEF SearchInv, Reached
  <2>2. search.seen = near \cup search.next /\ h \in 1..d /\ near \subseteq Nodes
    BY <1>0, <2>1, SearchFields DEF Hopping
  <2>3. search.raw = AllRows(j, near \X Ways)
    <3>1. (near \X Ways) \ {} = near \X Ways
      OBVIOUS
    <3>2. QED
      BY <1>1, <2>1, <3>1 DEF Hopping
  <2>4. Around(j, near) \subseteq search.seen
    <3>1. \A m \in Around(j, near) : \E r \in AllRows(j, near \X Ways) : r[2] = m
      <4>1. j \subseteq Lines /\ near \subseteq Nodes
        BY <1>2, <2>2
      <4>2. QED
        BY <4>1, AroundHasRows
    <3>2. \A r \in search.raw : r[2] \in search.seen
      BY <2>1 DEF Hopping
    <3>3. QED
      BY <2>3, <3>1, <3>2
  <2>5. search.seen = near \cup Around(j, near)
    BY <2>1, <2>2, <2>4 DEF Hopping
  <2>6. Reach(j, s)[h] = near \cup Around(j, near)
    <3>1. h \in 1..Top
      BY <1>2, <2>2
    <3>2. QED
      BY <1>2, <3>1, ReachUnrolled
  <2>7. QED
    BY <2>1, <2>2, <2>3, <2>5, <2>6 DEF AllRaw
<1>4. CASE /\ search.hop < search.depth /\ search.next # {}
           /\ search' = [search EXCEPT !.hop = @ + 1, !.todo = search.next \X Ways, !.next = {}]
  <2>1. /\ search'.stage = "hops" /\ search'.start = s /\ search'.depth = d
        /\ search'.hop = h + 1 /\ search'.todo = search.next \X Ways /\ search'.next = {}
        /\ search'.seen = search.seen /\ search'.raw = search.raw
        /\ search'.nodes = search.nodes /\ search'.edges = search.edges
    BY <1>0, <1>1, <1>4 DEF SearchType, SearchRecord
  <2>2. SearchType' /\ ShownLive'
    <3>1. search.next \X Ways \subseteq Nodes \X Ways /\ h + 1 \in Nat
      BY <1>0, SearchFields
    <3>2. search' \in SearchRecord
      BY <1>0, <1>4, <3>1 DEF SearchType, SearchRecord
    <3>3. QED
      BY <1>0, <1>1, <1>2, <2>1, <3>2 DEF SearchType, ShownLive
  <2>3. ASSUME steady' PROVE Hopping(Reached(search.hop - 1))'
    <3> PICK wider : wider = search.seen
      OBVIOUS
    <3>1. /\ Hopping(near) /\ h \in 1..d /\ near \subseteq Nodes
          /\ search.seen = Reach(j, s)[h] /\ AllRaw(near)
      BY <1>1, <1>3, <2>3
    <3>2. (h + 1) - 1 = h
      BY <3>1, <1>0, SearchFields
    <3>3. Reached(search.hop - 1)' = wider
      BY <1>1, <2>1, <3>1, <3>2 DEF Reached
    <3>4. (wider \X Ways) \ (search.next \X Ways) = near \X Ways
      BY <3>1 DEF Hopping
    <3>5. search'.raw = AllRows(j, (wider \X Ways) \ search'.todo)
      BY <2>1, <3>1, <3>4 DEF AllRaw
    <3>6. /\ search'.hop \in 1..search'.depth
          /\ search'.seen = wider \cup search'.next /\ search'.next \cap wider = {}
          /\ search'.next \subseteq Around(j, wider) /\ search'.todo \subseteq wider \X Ways
      BY <1>0, <1>4, <2>1, <3>1, SearchFields DEF Hopping
    <3>7. \A r \in search'.raw : r[2] \in search'.seen
      BY <2>1, <3>1 DEF Hopping
    <3>8. QED
      BY <1>1, <3>3, <3>5, <3>6, <3>7 DEF Hopping
  <2>4. QED
    BY <2>1, <2>2, <2>3 DEF SearchInv
<1>5. CASE /\ ~(search.hop < search.depth /\ search.next # {})
           /\ search' = [search EXCEPT !.stage = "fetch", !.next = {}]
  <2>1. /\ search'.stage = "fetch" /\ search'.start = s /\ search'.depth = d
        /\ search'.seen = search.seen /\ search'.raw = search.raw
        /\ search'.nodes = search.nodes /\ search'.edges = search.edges
    BY <1>0, <1>1, <1>5 DEF SearchType, SearchRecord
  <2>2. SearchType' /\ ShownLive'
    <3>1. search' \in SearchRecord
      BY <1>0, <1>5 DEF SearchType, SearchRecord
    <3>2. QED
      BY <1>0, <1>1, <1>2, <2>1, <3>1 DEF SearchType, ShownLive
  <2>3. ASSUME steady
        PROVE  search.seen = Reach(j, s)[d] /\ AllRaw(Reach(j, s)[d - 1])
    <3>1. /\ Hopping(near) /\ h \in 1..d /\ near \subseteq Nodes
          /\ search.seen = Reach(j, s)[h] /\ AllRaw(near)
      BY <1>3, <2>3
    <3>2. CASE h = d
      BY <3>1, <3>2
    <3>3. CASE h # d
      <4>1. h < d
        BY <3>1, <3>3, <1>2
      <4>2. search.next = {} /\ search.seen = near
        BY <1>5, <3>1, <4>1 DEF Hopping
      <4>3. h \in 1..Top /\ d \in h..Top /\ d - 1 \in h..Top
        BY <1>2, <3>1, <4>1
      <4>4. \A c \in h..Top : Reach(j, s)[c] = near
        <5>1. s \subseteq Nodes /\ Top \in Nat /\ h \in 1..Top
          BY <1>2, <4>3
        <5>2. Reach(j, s)[h] = Reach(j, s)[h - 1] /\ near = Reach(j, s)[h - 1]
          BY <3>1, <4>2
        <5>3. QED
          <6>1. TAKE c \in h..Top
          <6>2. Reach(j, s)[c] = Reach(j, s)[h - 1]
            BY <5>1, <5>2, ReachSettles
          <6>3. QED
            BY <5>2, <6>2, Zenon
      <4>5. Reach(j, s)[d] = near /\ Reach(j, s)[d - 1] = near
        BY <4>3, <4>4
      <4>6. QED
        BY <3>1, <4>2, <4>5
    <3>4. QED
      BY <3>2, <3>3
  <2>4. QED
    BY <1>1, <2>1, <2>2, <2>3 DEF SearchInv, AllRaw, Reached
<1>6. QED
  BY <1>1, <1>4, <1>5

LEMMA FetchStep ==
  ASSUME SearchInv, Search!Fetch
  PROVE  SearchInv'
<1>0. SearchType /\ ShownLive
  BY DEF SearchInv
<1>1. /\ search.stage = "fetch"
      /\ search' = [search EXCEPT !.stage = "build", !.nodes = search.seen \cap alive]
      /\ UNCHANGED <<joined, alive, everAlive, steady>>
  BY DEF Search!Fetch, Search!LiveOf
<1>2. /\ search'.stage = "build" /\ search'.start = search.start
      /\ search'.depth = search.depth /\ search'.raw = search.raw
      /\ search'.nodes = search.seen \cap alive /\ search'.edges = search.edges
  BY <1>0, <1>1 DEF SearchType, SearchRecord
<1>3. SearchType' /\ ShownLive'
  <2>1. search.seen \cap alive \subseteq Nodes /\ search.seen \cap alive \subseteq everAlive
    BY <1>0 DEF SearchType
  <2>2. search' \in SearchRecord
    BY <1>0, <1>1, <2>1 DEF SearchType, SearchRecord
  <2>3. QED
    BY <1>0, <1>1, <1>2, <2>1, <2>2 DEF SearchType, ShownLive
<1>4. QED
  BY <1>1, <1>2, <1>3 DEF SearchInv, AllRaw, Reached

\* A query that fails.
LEMMA FailStep ==
  ASSUME SearchInv,
         Search!FetchFails \/ \E q \in search.todo : Search!GoFails(q[1], q[2])
  PROVE  SearchInv'
<1>0. SearchType /\ ShownLive
  BY DEF SearchInv
<1>1. UNCHANGED <<joined, alive, everAlive>> /\ steady' = FALSE
  BY DEF Search!FetchFails, Search!GoFails, Search!Fails
<1>2. \/ search.stage = "fetch" /\ search' = [search EXCEPT !.stage = "build"]
      \/ /\ search.stage = "hops"
         /\ \E q \in search.todo : search' = [search EXCEPT !.todo = @ \ {<<q[1], q[2]>>}]
  BY DEF Search!FetchFails, Search!GoFails
<1>3. CASE search.stage = "fetch" /\ search' = [search EXCEPT !.stage = "build"]
  BY <1>0, <1>1, <1>3 DEF SearchInv, SearchType, SearchRecord, ShownLive
<1>4. ASSUME NEW q \in search.todo, search.stage = "hops",
             search' = [search EXCEPT !.todo = @ \ {<<q[1], q[2]>>}]
      PROVE  SearchInv'
  <2>1. search' \in SearchRecord
    BY <1>0, <1>4 DEF SearchType, SearchRecord
  <2>2. /\ search'.stage = "hops" /\ search'.depth = search.depth
        /\ search'.nodes = search.nodes /\ search'.edges = search.edges
    BY <1>0, <1>4 DEF SearchType, SearchRecord
  <2>3. QED
    BY <1>0, <1>1, <1>4, <2>1, <2>2 DEF SearchInv, SearchType, ShownLive
<1>5. QED
  BY <1>2, <1>3, <1>4

\* What is shown of edges whose ends are among the vertices.
LEMMA ShowsEnds ==
  ASSUME NEW j, NEW a, NEW near, NEW ns, (near \cup Around(j, near)) \cap a = ns,
         j \subseteq Lines
  PROVE  Search!Connected(ns, Touching(j, a, near)) = Showing(Touching(j, a, near), ns)
<1> PICK es : es = Touching(j, a, near)
  OBVIOUS
<1> PICK ends : ends = UNION {e[1] : e \in es}
  OBVIOUS
<1>1. \A x \in es : x[1] # {} /\ x[1] \subseteq ns
  <2>1. ASSUME NEW x \in es PROVE x[1] # {} /\ x[1] \subseteq ns
    <3>1. PICK e \in j : /\ {e[1], e[2]} \subseteq a /\ {e[1], e[2]} \cap near # {}
                         /\ x = <<{e[1], e[2]}, e[3]>>
      BY DEF Touching
    <3>2. e \in Lines
      OBVIOUS
    <3>3. e[1] \in near \cup Around(j, near) /\ e[2] \in near \cup Around(j, near)
      BY <3>1, <3>2 DEF Around, Lines
    <3>4. x[1] = {e[1], e[2]}
      BY <3>1
    <3>5. QED
      BY <3>1, <3>3, <3>4
  <2>2. QED
    BY <2>1
<1>2. ends \subseteq ns /\ (ends = {} <=> es = {})
  BY <1>1
<1>3. es # {} => {n \in ns : \E e \in es : n \in e[1]} = ends
  BY <1>2
<1>4. QED
  BY <1>2, <1>3 DEF Search!Connected, Showing

LEMMA BuildStep ==
  ASSUME SearchInv, Search!Build
  PROVE  SearchInv'
<1>0. SearchType /\ ShownLive
  BY DEF SearchInv
<1> PICK es : es = Search!Between(search.raw, search.nodes)
  OBVIOUS
<1> PICK shown : shown = Search!Connected(search.nodes, es)
  OBVIOUS
<1>1. /\ search.stage = "build"
      /\ search' = [search EXCEPT !.stage = "answered", !.edges = es,
                    !.nodes = shown \cap search.wanted]
      /\ UNCHANGED <<joined, alive, everAlive, steady>>
  BY <1>0 DEF Search!Build, SearchType, SearchRecord
<1>2. /\ search'.stage = "answered" /\ search'.start = search.start
      /\ search'.depth = search.depth /\ search'.wanted = search.wanted
      /\ search'.nodes = shown \cap search.wanted /\ search'.edges = es
  BY <1>0, <1>1 DEF SearchType, SearchRecord
<1>3. shown \subseteq search.nodes
  BY DEF Search!Connected
<1>4. \A e \in es : e \in (SUBSET Nodes) \X Types /\ e[1] \subseteq search.nodes
  <2>1. ASSUME NEW e \in es PROVE e \in (SUBSET Nodes) \X Types /\ e[1] \subseteq search.nodes
    <3>1. PICK r \in search.raw : /\ r[1] \in search.nodes /\ r[2] \in search.nodes
                                  /\ e = <<{r[1], r[2]}, r[3]>>
      BY DEF Search!Between
    <3>2. r \in Lines /\ search.nodes \subseteq Nodes
      BY <1>0, SearchFields
    <3>3. r[3] \in Types /\ {r[1], r[2]} \subseteq search.nodes
      BY <3>1, <3>2 DEF Lines
    <3>4. QED
      BY <3>1, <3>2, <3>3
  <2>2. QED
    BY <2>1
<1>5. SearchType' /\ ShownLive'
  <2>1. search' \in SearchRecord
    <3>1. shown \cap search.wanted \subseteq Nodes /\ es \subseteq (SUBSET Nodes) \X Types
      BY <1>0, <1>3, <1>4, SearchFields
    <3>2. QED
      BY <1>0, <1>1, <3>1 DEF SearchType, SearchRecord
  <2>2. search'.nodes \subseteq everAlive /\ \A e \in search'.edges : e[1] \subseteq everAlive
    BY <1>0, <1>2, <1>3, <1>4 DEF ShownLive
  <2>3. QED
    BY <1>0, <1>1, <1>2, <2>1, <2>2 DEF SearchType, ShownLive
<1>6. ASSUME steady PROVE Exact(Reached(search.depth - 1), Reached(search.depth))'
  <2> PICK j : j = joined
    OBVIOUS
  <2> PICK near : near = Reached(search.depth - 1)
    OBVIOUS
  <2> PICK full : full = Reached(search.depth)
    OBVIOUS
  <2> PICK a : a = alive
    OBVIOUS
  <2>1. search.nodes = full \cap a /\ search.raw = AllRows(j, near \X Ways)
    BY <1>1, <1>6 DEF SearchInv, AllRaw
  <2>2. j \subseteq Lines /\ near \subseteq full /\ full \subseteq Nodes
        /\ full = near \cup Around(j, near)
    <3> PICK s : s = search.start
      OBVIOUS
    <3> PICK d : d = search.depth
      OBVIOUS
    <3>1. j \subseteq Lines /\ s \subseteq Nodes /\ d \in Depths
      BY <1>0, <1>1, SearchFields DEF SearchType
    <3>2. Top \in Nat /\ d \in 1..Top
      BY <3>1, TopIs
    <3>3. near = Reach(j, s)[d - 1] /\ full = Reach(j, s)[d]
      BY DEF Reached
    <3>4. full = near \cup Around(j, near)
      BY <3>1, <3>2, <3>3, ReachUnrolled
    <3>5. Reach(j, s)[d] \subseteq Nodes
      BY <3>1, <3>2, ReachInNodes
    <3>6. QED
      BY <3>1, <3>3, <3>4, <3>5
  <2>3. es = Touching(j, a, near)
    <3>1. PICK ns : ns = full \cap a
      OBVIOUS
    <3>2. Search!Between(AllRows(j, near \X Ways), ns) = Touching(j, a, near)
      BY <2>2, <3>1, RowsTouch
    <3>3. QED
      BY <2>1, <3>1, <3>2
  <2>4. shown = Showing(es, full \cap a)
    <3>1. PICK ns : ns = full \cap a
      OBVIOUS
    <3>2. Search!Connected(ns, Touching(j, a, near)) = Showing(Touching(j, a, near), ns)
      BY <2>2, <3>1, ShowsEnds
    <3>3. QED
      BY <2>1, <2>3, <3>1, <3>2
  <2>5. Reached(search.depth - 1)' = near /\ Reached(search.depth)' = full
    BY <1>1, <1>2 DEF Reached
  <2>6. QED
    BY <1>1, <1>2, <2>3, <2>4, <2>5 DEF Exact
<1>7. QED
  BY <1>1, <1>2, <1>5, <1>6 DEF SearchInv

LEMMA AnswerStep ==
  ASSUME SearchInv, Search!Answer
  PROVE  SearchInv'
<1>1. /\ search' = [stage |-> "idle", start |-> {}, depth |-> 0, wanted |-> {}, hop |-> 0,
           todo |-> {}, next |-> {}, seen |-> {}, raw |-> {}, nodes |-> {}, edges |-> {}]
      /\ UNCHANGED <<joined, alive, everAlive, steady>>
  BY DEF Search!Answer, Search!NoSearch
<1>2. search' \in SearchRecord
  BY <1>1 DEF SearchRecord
<1>3. QED
  BY <1>1, <1>2 DEF SearchInv, SearchType, ShownLive

LEMMA SearchStep ==
  ASSUME SearchInv, Search!Next \/ UNCHANGED searchVars
  PROVE  SearchInv'
<1>0. SearchType
  BY DEF SearchInv
<1>1. ASSUME NEW n \in Nodes, Search!Delete(n) PROVE SearchInv'
  <2>1. /\ alive' \subseteq alive /\ steady' = FALSE /\ UNCHANGED <<joined, search, everAlive>>
    BY <1>1 DEF Search!Delete
  <2>2. joined' \subseteq Lines
    BY <1>0, <2>1 DEF SearchType
  <2>3. QED
    BY <2>1, <2>2, MoveStep
<1>2. ASSUME NEW e \in joined, NEW f \in Nodes \X Nodes \X Types, Search!Rejoin(e, f)
      PROVE  SearchInv'
  <2>1. /\ joined' = (joined \ {e}) \cup {f} /\ steady' = FALSE
        /\ UNCHANGED <<alive, search, everAlive>>
    BY <1>2 DEF Search!Rejoin
  <2>2. joined' \subseteq Lines
    BY <1>0, <2>1 DEF SearchType, Lines
  <2>3. QED
    BY <2>1, <2>2, MoveStep
<1>3. ASSUME NEW q \in search.todo, NEW rows \in Search!Rows(q[1], q[2]),
             Search!Go(q[1], q[2], rows)
      PROVE  SearchInv'
  <2>1. rows \in SUBSET RowsOf(joined, q[1], q[2])
    BY DEF Search!Rows, Search!kSubset, Search!Hits, RowsOf
  <2>2. QED
    BY <1>3, <2>1, GoStep
<1>4. CASE UNCHANGED searchVars
  BY <1>4 DEF searchVars, SearchInv, SearchType, SearchRecord, ShownLive, Hopping, AllRaw,
              Exact, Reached
<1>5. CASE Search!Next
  BY <1>1, <1>2, <1>3, <1>5, StartStep, HopStep, FetchStep, FailStep, BuildStep, AnswerStep
     DEF Search!Next
<1>6. QED
  BY <1>4, <1>5

LEMMA SearchStart ==
  ASSUME Init, part = "search"
  PROVE  SearchInv
<1>1. Search!Init
  BY DEF Init, GraphInit
<1>2. \A k, S : Search!kSubset(k, S) \subseteq SUBSET S
  BY DEF Search!kSubset
<1>3. joined \subseteq Lines
  BY <1>1, <1>2 DEF Search!Init, Lines
<1>4. /\ search = [stage |-> "idle", start |-> {}, depth |-> 0, wanted |-> {}, hop |-> 0,
           todo |-> {}, next |-> {}, seen |-> {}, raw |-> {}, nodes |-> {}, edges |-> {}]
      /\ alive = Nodes /\ everAlive = alive /\ steady = TRUE
  BY <1>1 DEF Search!Init, Search!NoSearch
<1>5. search \in SearchRecord
  BY <1>4 DEF SearchRecord
<1>6. QED
  BY <1>3, <1>4, <1>5 DEF SearchInv, SearchType, ShownLive

LEMMA SearchSound ==
  ASSUME SearchInv
  PROVE  Search!SearchExact /\ Search!DeletedNotShown
<1>1. Search!DeletedNotShown
  BY DEF SearchInv, ShownLive, Search!DeletedNotShown
<1>2. ASSUME search.stage = "answered", steady
      PROVE  search.edges = Search!WithinEdges /\ search.nodes = Search!WithinNodes \cap search.wanted
  <2> PICK near : near = Reached(search.depth - 1)
    OBVIOUS
  <2>1. Exact(near, Reached(search.depth))
    BY <1>2 DEF SearchInv
  <2>2. Search!Within = Reach(joined, search.start)
    BY DEF Search!Within, Reach, Search!Neighbours, Around, Top
  <2>3. near = Search!Within[search.depth - 1] /\ Reached(search.depth) = Search!Within[search.depth]
    BY <2>2 DEF Reached
  <2>4. Search!WithinEdges = Touching(joined, alive, near)
    BY <2>3, Zenon DEF Search!WithinEdges, Touching
  <2>5. Search!WithinNodes = Showing(search.edges, Reached(search.depth) \cap alive)
    BY <2>1, <2>3, <2>4, Zenon DEF Search!WithinNodes, Showing, Exact
  <2>6. QED
    BY <2>1, <2>4, <2>5 DEF Exact
<1>3. QED
  BY <1>1, <1>2 DEF Search!SearchExact

LEMMA ImpactSteps ==
  ASSUME [Next]_allVars
  PROVE  /\ part' = "walk" => part = "walk" /\ (Walk!Next \/ UNCHANGED impactVars)
         /\ part' = "neighbours" =>
              part = "neighbours" /\ (Neighbour!Next \/ UNCHANGED impactVars)
         /\ part' = "search" => part = "search" /\ (Search!Next \/ UNCHANGED searchVars)
<1>1. UNCHANGED part
  BY DEF Next, allVars
<1>2. CASE UNCHANGED graphVars
  BY <1>1, <1>2 DEF graphVars
<1>3. CASE GraphNext
  BY <1>1, <1>3 DEF GraphNext
<1>4. QED
  BY <1>2, <1>3 DEF Next, allVars

(* A walk answers what is in the graph (topology.go, impact.go, getResource.go): the
   blast radius counts each resource within the hops once, whatever the batches of
   the queries; every caller and callee of the applications of an alert is listed;
   a search of a still graph shows the edges that the paths of its depth end with,
   and never a vertex that was deleted before it began. *)
THEOREM WalksAlwaysExact == Spec => []WalksExact
<1> DEFINE Inv == /\ part = "walk" => WalkInv
                  /\ part = "neighbours" => Listed
                  /\ part = "search" => SearchInv
<1>1. Init => Inv
  BY WalkStart, NeighbourStart, SearchStart
<1>2. Inv /\ [Next]_allVars => Inv'
  <2>1. ASSUME Inv, [Next]_allVars, part' = "walk" PROVE WalkInv'
    <3>1. part = "walk" /\ (Walk!Next \/ UNCHANGED impactVars)
      BY <2>1, ImpactSteps
    <3>2. QED
      BY <2>1, <3>1, WalkStep
  <2>2. ASSUME Inv, [Next]_allVars, part' = "neighbours" PROVE Listed'
    <3>1. part = "neighbours" /\ (Neighbour!Next \/ UNCHANGED impactVars)
      BY <2>2, ImpactSteps
    <3>2. QED
      BY <2>2, <3>1, NeighbourStep
  <2>3. ASSUME Inv, [Next]_allVars, part' = "search" PROVE SearchInv'
    <3>1. part = "search" /\ (Search!Next \/ UNCHANGED searchVars)
      BY <2>3, ImpactSteps
    <3>2. QED
      BY <2>3, <3>1, SearchStep
  <2>4. QED
    BY <2>1, <2>2, <2>3
<1>3. Inv => WalksExact
  BY WalkSound, NeighbourSound, SearchSound DEF WalksExact
<1> HIDE DEF Inv
<1>4. QED
  BY <1>1, <1>2, <1>3, PTL DEF Spec, allVars
=============================================================================
