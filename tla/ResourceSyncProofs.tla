------------------------- MODULE ResourceSyncProofs -------------------------
(* The graph never loses a resource that is in the cluster, and catches up  *)
(* with it, for every value of the constants, as long as every kind of     *)
(* resource is listed.                                                     *)
EXTENDS ResourceSync, SequenceTheorems, WellFoundedInduction, TLAPS

-----------------------------------------------------------------------------
(* Sequences.                                                              *)

\* What is left of a sequence has elements of the sequence.
LEMMA RemoveAtKeeps ==
  ASSUME NEW S, NEW q \in Seq(S), NEW i \in 1..Len(q)
  PROVE  /\ RemoveAt(q, i) \in Seq(S)
         /\ \A j \in 1..Len(RemoveAt(q, i)) :
              \E k \in 1..Len(q) : RemoveAt(q, i)[j] = q[k]
<1> DEFINE a == SubSeq(q, 1, i - 1)
           b == SubSeq(q, i + 1, Len(q))
<1>1. /\ a \in Seq(S) /\ Len(a) = i - 1
      /\ \A j \in 1..Len(a) : a[j] = q[j]
  OBVIOUS
<1>2. /\ b \in Seq(S) /\ Len(b) = Len(q) - i
      /\ \A j \in 1..Len(b) : b[j] = q[i + j]
  OBVIOUS
<1>3. RemoveAt(q, i) = a \o b
  BY DEF RemoveAt
<1> HIDE DEF a, b
<1>4. /\ a \o b \in Seq(S) /\ Len(a \o b) = Len(a) + Len(b)
      /\ \A j \in 1..Len(a \o b) :
           (a \o b)[j] = IF j <= Len(a) THEN a[j] ELSE b[j - Len(a)]
  <2>1. /\ a \o b \in Seq(S) /\ Len(a \o b) = Len(a) + Len(b)
        /\ \A j \in 1..Len(a) + Len(b) :
             (a \o b)[j] = IF j <= Len(a) THEN a[j] ELSE b[j - Len(a)]
    BY <1>1, <1>2, ConcatProperties, Zenon
  <2>2. QED
    BY <2>1
<1>5. ASSUME NEW j \in 1..Len(a \o b)
      PROVE  \E k \in 1..Len(q) : (a \o b)[j] = q[k]
  <2>1. CASE j <= Len(a)
    <3>1. j \in 1..Len(a) /\ j \in 1..Len(q)
      BY <2>1, <1>1, <1>2, <1>4
    <3>2. (a \o b)[j] = q[j]
      BY <3>1, <2>1, <1>1, <1>4
    <3>3. QED
      BY <3>1, <3>2
  <2>2. CASE j > Len(a)
    <3>1. j - Len(a) \in 1..Len(b) /\ i + (j - Len(a)) \in 1..Len(q)
      BY <2>2, <1>1, <1>2, <1>4
    <3>2. (a \o b)[j] = q[i + (j - Len(a))]
      BY <3>1, <2>2, <1>1, <1>2, <1>4
    <3>3. QED
      BY <3>1, <3>2
  <2>3. QED
    BY <2>1, <2>2, <1>1, <1>4
<1>6. QED
  BY <1>3, <1>4, <1>5

-----------------------------------------------------------------------------
(* Types.                                                                  *)

\* A message that was taken is in the topic.
LEMMA CurrentIsMessage ==
  ASSUME TypeOK, NEW w \in Workers, worker[w].phase # "idle"
  PROVE  worker[w].offset \in 1..Len(log) /\ Current(w) \in Message
<1>1. worker[w].offset \in 1..fetched /\ fetched \in 0..Len(log) /\ log \in Seq(Message)
  BY DEF TypeOK
<1>2. QED
  BY <1>1 DEF Current

\* The cluster, the informers and the publishers keep the types.
LEMMA ProducerTypes ==
  ASSUME TypeOK, NEW u \in Uids,
         \/ ClusterWrite(u) \/ ClusterDelete(u)
         \/ \E v \in Versions : HandleChange(u, v)
         \/ HandleDelete(u) \/ HandleMissedDelete(u) \/ Evict(u)
         \/ \E i \in DOMAIN outbox[u] : Publish(u, i) \/ PublishFails(u, i)
  PROVE  TypeOK'
<1> USE ConstantsAssumption DEF Versions, cluster, topic, vertices
<1>1. CASE ClusterWrite(u)
  BY <1>1 DEF TypeOK, ClusterWrite
<1>2. CASE ClusterDelete(u)
  BY <1>2 DEF TypeOK, ClusterDelete
<1>3. ASSUME NEW v \in Versions, HandleChange(u, v) PROVE TypeOK'
  <2>1. [uid |-> u, type |-> IF seen[u] = 0 THEN "Added" ELSE "Updated", version |-> v]
          \in Message
    BY DEF Message
  <2>2. outbox' \in [Uids -> Seq(Message)]
    BY <1>3, <2>1 DEF TypeOK, HandleChange
  <2>3. seen' \in [Uids -> Versions \cup {0, Done}] /\ cache' \in [Uids -> 0..MaxChanges]
    BY <1>3 DEF TypeOK, HandleChange
  <2>4. QED
    BY <1>3, <2>2, <2>3 DEF TypeOK, HandleChange
<1>4. CASE HandleDelete(u)
  <2>1. [uid |-> u, type |-> "Deleted", version |-> seen[u]] \in Message
    <3>1. seen[u] \in Versions \cup {0, Done} /\ seen[u] > 0
      BY <1>4 DEF TypeOK, HandleDelete
    <3>2. seen[u] \in Versions
      BY <3>1 DEF Done
    <3>3. QED
      BY <3>2 DEF Message
  <2>2. outbox' \in [Uids -> Seq(Message)]
    BY <1>4, <2>1 DEF TypeOK, HandleDelete
  <2>3. seen' \in [Uids -> Versions \cup {0, Done}] /\ cache' \in [Uids -> 0..MaxChanges]
    BY <1>4 DEF TypeOK, HandleDelete
  <2>4. QED
    BY <1>4, <2>2, <2>3 DEF TypeOK, HandleDelete
<1>5. CASE HandleMissedDelete(u)
  BY <1>5 DEF TypeOK, HandleMissedDelete
<1>6. CASE Evict(u)
  BY <1>6 DEF TypeOK, Evict
<1>7. ASSUME NEW i \in DOMAIN outbox[u], Publish(u, i) PROVE TypeOK'
  <2>1. outbox[u] \in Seq(Message) /\ i \in 1..Len(outbox[u])
    BY <1>7 DEF TypeOK
  <2>2. outbox[u][i] \in Message /\ RemoveAt(outbox[u], i) \in Seq(Message)
    BY <2>1, RemoveAtKeeps
  <2>3. outbox' \in [Uids -> Seq(Message)]
    BY <1>7, <2>2 DEF TypeOK, Publish
  <2>4. log' \in Seq(Message) /\ Len(log') = Len(log) + 1 /\ Len(log) \in Nat
    BY <1>7, <2>2 DEF TypeOK, Publish
  <2>5. {fetched', committed', marked'} \subseteq 0..Len(log')
    BY <1>7, <2>4 DEF TypeOK, Publish
  <2>6. QED
    BY <1>7, <2>3, <2>4, <2>5 DEF TypeOK, Publish
<1>8. ASSUME NEW i \in DOMAIN outbox[u], PublishFails(u, i) PROVE TypeOK'
  <2>1. outbox[u] \in Seq(Message) /\ i \in 1..Len(outbox[u])
    BY <1>8 DEF TypeOK
  <2>2. RemoveAt(outbox[u], i) \in Seq(Message)
    BY <2>1, RemoveAtKeeps
  <2>3. outbox' \in [Uids -> Seq(Message)]
    BY <1>8, <2>2 DEF TypeOK, PublishFails
  <2>4. QED
    BY <1>8, <2>3 DEF TypeOK, PublishFails
<1>9. QED
  BY <1>1, <1>2, <1>3, <1>4, <1>5, <1>6, <1>7, <1>8

\* A worker may change to any other that has taken what it works on.
LEMMA WorkerChanges ==
  ASSUME TypeOK, NEW w \in Workers, NEW x \in Worker,
         x.phase # "idle" => x.offset \in 1..fetched,
         worker' = [worker EXCEPT ![w] = x]
  PROVE  /\ worker' \in [Workers -> Worker]
         /\ \A y \in Workers : worker'[y].phase # "idle" => worker'[y].offset \in 1..fetched
BY DEF TypeOK

\* A worker that goes on with its message, or tries it again.
LEMMA WorkerGoesOn ==
  ASSUME TypeOK, NEW w \in Workers, worker[w].phase # "idle",
         NEW p \in {"check", "write", "commit"}, NEW n \in 0..(MaxRetries - 1),
         \/ worker' = [worker EXCEPT ![w] = [@ EXCEPT !.phase = p]]
         \/ worker' = [worker EXCEPT ![w] = [@ EXCEPT !.phase = p, !.tries = n]]
  PROVE  /\ worker' \in [Workers -> Worker]
         /\ \A y \in Workers : worker'[y].phase # "idle" => worker'[y].offset \in 1..fetched
<1> DEFINE x == [worker[w] EXCEPT !.phase = p]
           z == [worker[w] EXCEPT !.phase = p, !.tries = n]
<1>1. worker[w] \in Worker /\ worker[w].offset \in 1..fetched
  BY DEF TypeOK
<1>2. x \in Worker /\ x.offset = worker[w].offset
  BY <1>1 DEF Worker
<1>3. z \in Worker /\ z.offset = worker[w].offset
  BY <1>1 DEF Worker
<1>4. worker' = [worker EXCEPT ![w] = x] \/ worker' = [worker EXCEPT ![w] = z]
  OBVIOUS
<1> HIDE DEF x, z
<1>5. QED
  BY <1>1, <1>2, <1>3, <1>4, WorkerChanges

LEMMA IdleType == IdleWorker \in Worker /\ IdleWorker.phase = "idle"
BY ConstantsAssumption DEF IdleWorker, Worker

\* So do the workers.
LEMMA WorkerTypes ==
  ASSUME TypeOK, NEW w \in Workers, Take(w) \/ Work(w)
  PROVE  TypeOK'
<1> USE DEF cluster, topic, vertices
<1>1. worker[w] \in Worker /\ worker[w].tries \in 0..(MaxRetries - 1) /\ MaxRetries \in Nat
  BY ConstantsAssumption DEF TypeOK, Worker
<1>2. CASE Take(w)
  <2>1. fetched \in Nat /\ fetched < Len(log) /\ Len(log) \in Nat
    BY <1>2 DEF TypeOK, Take
  <2>2. fetched + 1 \in 1..Len(log) /\ log \in Seq(Message)
    BY <2>1 DEF TypeOK
  <2>3. log[fetched + 1] \in Message
    BY <2>2
  <2>4. disturbed' \subseteq Uids
    BY <1>2, <2>3 DEF TypeOK, Take, Message
  <2>5. [phase |-> "check", offset |-> fetched + 1, tries |-> 0] \in Worker
    BY <2>1, ConstantsAssumption DEF Worker
  <2>6. worker' \in [Workers -> Worker]
    BY <1>2, <2>5 DEF TypeOK, Take
  <2>7. \A x \in Workers : worker'[x].phase # "idle" => worker'[x].offset \in 1..(fetched + 1)
    BY <1>2, <2>1 DEF TypeOK, Take
  <2>8. QED
    BY <1>2, <2>2, <2>4, <2>6, <2>7 DEF TypeOK, Take
<1>3. CASE Check(w)
  <2>1. PICK p \in {"write", "commit"} : worker' = [worker EXCEPT ![w] = [@ EXCEPT !.phase = p]]
    BY <1>3 DEF Check
  <2>2. worker[w].phase # "idle"
    BY <1>3 DEF Check
  <2>3. /\ worker' \in [Workers -> Worker]
        /\ \A y \in Workers : worker'[y].phase # "idle" => worker'[y].offset \in 1..fetched
    BY <1>1, <2>1, <2>2, WorkerGoesOn
  <2>4. QED
    BY <1>3, <2>3 DEF TypeOK, Check
<1>4. CASE Write(w)
  <2>1. Current(w) \in Message
    BY <1>4, CurrentIsMessage DEF Write
  <2>2. graph' \in [Uids -> 0..MaxChanges] /\ deleted' \in [Uids -> BOOLEAN]
    BY <1>4, <2>1, ConstantsAssumption DEF TypeOK, Write, Message, Versions
  <2>3. worker[w].phase # "idle" /\ worker' = [worker EXCEPT ![w] = [@ EXCEPT !.phase = "commit"]]
    BY <1>4 DEF Write
  <2>4. /\ worker' \in [Workers -> Worker]
        /\ \A y \in Workers : worker'[y].phase # "idle" => worker'[y].offset \in 1..fetched
    BY <1>1, <2>3, WorkerGoesOn
  <2>5. QED
    BY <1>4, <2>2, <2>4 DEF TypeOK, Write
<1>5. CASE Retry(w)
  <2>1. worker[w].tries + 1 \in 0..(MaxRetries - 1)
    BY <1>1, <1>5 DEF Retry, GivesUp
  <2>2. PICK n \in 0..(MaxRetries - 1) :
          worker' = [worker EXCEPT ![w] = [@ EXCEPT !.phase = "check", !.tries = n]]
    BY <2>1, <1>5 DEF Retry
  <2>3. worker[w].phase # "idle"
    BY <1>5 DEF Retry
  <2>4. /\ worker' \in [Workers -> Worker]
        /\ \A y \in Workers : worker'[y].phase # "idle" => worker'[y].offset \in 1..fetched
    BY <2>1, <2>2, <2>3, WorkerGoesOn
  <2>5. QED
    BY <1>5, <2>4 DEF TypeOK, Retry
<1>6. CASE GiveUp(w)
  <2>1. Current(w).uid \in Uids
    BY <1>6, CurrentIsMessage DEF GiveUp, Message
  <2>2. worker[w].phase # "idle"
    BY <1>6 DEF GiveUp
  <2>3. CASE worker' = [worker EXCEPT ![w] = [@ EXCEPT !.phase = "commit"]]
    <3>1. /\ worker' \in [Workers -> Worker]
          /\ \A y \in Workers : worker'[y].phase # "idle" => worker'[y].offset \in 1..fetched
      BY <1>1, <2>2, <2>3, WorkerGoesOn
    <3>2. QED
      BY <1>6, <2>1, <3>1 DEF TypeOK, GiveUp
  <2>4. CASE worker' = [worker EXCEPT ![w] = IdleWorker]
    <3>1. /\ worker' \in [Workers -> Worker]
          /\ \A y \in Workers : worker'[y].phase # "idle" => worker'[y].offset \in 1..fetched
      BY <2>4, WorkerChanges, IdleType
    <3>2. QED
      BY <1>6, <2>1, <3>1 DEF TypeOK, GiveUp
  <2>5. QED
    BY <1>6, <2>3, <2>4 DEF GiveUp
<1>7. CASE Commit(w)
  <2>1. marked' \in 0..Len(log)
    BY <1>7, CurrentIsMessage DEF TypeOK, Commit
  <2>2. /\ worker' \in [Workers -> Worker]
        /\ \A y \in Workers : worker'[y].phase # "idle" => worker'[y].offset \in 1..fetched
    BY <1>7, WorkerChanges, IdleType DEF Commit
  <2>3. QED
    BY <1>7, <2>1, <2>2 DEF TypeOK, Commit
<1>8. QED
  BY <1>2, <1>3, <1>4, <1>5, <1>6, <1>7 DEF Work

\* So do the comparisons with the cluster.
LEMMA SyncTypes ==
  ASSUME TypeOK, NEW s \in Syncs, SyncStep(s)
  PROVE  TypeOK'
<1> USE DEF SyncUnchanged, cluster, topic, vertices, Sync, IdleSync
<1>1. CASE Scan(s)
  BY <1>1 DEF TypeOK, Scan, LiveVertices
<1>2. ASSUME NEW answered \in Answers, List(s, answered) PROVE TypeOK'
  BY <1>2 DEF TypeOK, List, Ghosts
<1>3. ASSUME NEW u \in Uids, Mark(s, u) PROVE TypeOK'
  BY <1>3 DEF TypeOK, Mark
<1>4. ASSUME NEW u \in Uids, MarkFails(s, u) PROVE TypeOK'
  BY <1>4 DEF TypeOK, MarkFails
<1>5. CASE Abort(s) \/ Marked(s)
  <2>1. PICK x \in Sync : sync' = [sync EXCEPT ![s] = x]
    <3>1. CASE sync' = [sync EXCEPT ![s] = IdleSync]
      BY <3>1
    <3>2. ASSUME NEW expired \in SUBSET Tombstones,
                 sync' = [sync EXCEPT ![s] = [phase |-> "expiring", uids |-> expired]]
          PROVE  \E x \in Sync : sync' = [sync EXCEPT ![s] = x]
      <4>1. [phase |-> "expiring", uids |-> expired] \in Sync
        BY DEF Tombstones
      <4>2. QED
        BY <3>2, <4>1
    <3>3. QED
      BY <1>5, <3>1, <3>2 DEF Abort, Marked, Ends
  <2>2. QED
    BY <1>5, <2>1 DEF TypeOK, Abort, Marked
<1>6. CASE Expire(s)
  <2>1. PICK removed \in SUBSET sync[s].uids :
          /\ graph' = [u \in Uids |-> IF u \in removed THEN 0 ELSE graph[u]]
          /\ deleted' = [u \in Uids |-> deleted[u] /\ u \notin removed]
    BY <1>6 DEF Expire
  <2>2. sync' \in [Syncs -> Sync]
    BY <1>6 DEF TypeOK, Expire
  <2>3. graph' \in [Uids -> 0..MaxChanges]
    BY <2>1, ConstantsAssumption DEF TypeOK
  <2>4. deleted' \in [Uids -> BOOLEAN]
    BY <2>1 DEF TypeOK
  <2>5. QED
    BY <1>6, <2>2, <2>3, <2>4 DEF TypeOK, Expire
<1>7. QED
  BY <1>1, <1>2, <1>3, <1>4, <1>5, <1>6 DEF SyncStep

\* So does a restart.
LEMMA RestartTypes ==
  ASSUME TypeOK, Restart
  PROVE  TypeOK'
<1> USE ConstantsAssumption DEF cluster, topic, vertices
<1>1. PICK start \in committed..marked :
        /\ committed' = start /\ marked' = start /\ fetched' = start
        /\ \E lost : disturbed' = {u \in Uids : ~exists[u]} \cap (disturbed \cup lost)
  BY Zenon DEF Restart
<1>2. start \in 0..Len(log) /\ log' = log
  BY <1>1 DEF TypeOK, Restart
<1>3. seen' \in [Uids -> Versions \cup {0, Done}] /\ cache' \in [Uids -> 0..MaxChanges]
  BY DEF Restart
<1>4. outbox' \in [Uids -> Seq(Message)]
  BY DEF Restart
<1>5. /\ worker' \in [Workers -> Worker] /\ \A w \in Workers : worker'[w].phase = "idle"
      /\ sync' \in [Syncs -> Sync]
  BY DEF Restart, Worker, IdleWorker, Sync, IdleSync
<1>6. restarts' \in 0..MaxChanges
  BY DEF TypeOK, Restart
<1>7. disturbed' \subseteq Uids
  BY <1>1
<1>8. QED
  BY <1>1, <1>2, <1>3, <1>4, <1>5, <1>6, <1>7 DEF TypeOK, Restart

LEMMA InitTypes == Init => TypeOK
BY ConstantsAssumption DEF Init, TypeOK, IdleWorker, Worker, IdleSync, Sync, Message, Versions

LEMMA StepTypes == TypeOK /\ [Next]_vars => TypeOK'
<1> SUFFICES ASSUME TypeOK, [Next]_vars PROVE TypeOK'
  OBVIOUS
<1>1. CASE UNCHANGED vars
  BY <1>1 DEF TypeOK, vars, cluster, topic, vertices
<1>2. CASE Next
  BY <1>2, ProducerTypes, WorkerTypes, SyncTypes, RestartTypes DEF Next
<1>3. QED
  BY <1>1, <1>2

\* Type correctness: workers hold offsets of the topic and never try more
\* often than they may.
THEOREM TypeCorrect == Spec => []TypeOK
BY InitTypes, StepTypes, PTL DEF Spec

-----------------------------------------------------------------------------
(* What has left the cluster stays away, and every trace of a deletion is  *)
(* of something that has left it.                                          *)

Created(u) == version[u] > 0

\* A message speaks of what was there, a "Deleted" of what is gone, when the
\* cluster is in the state given by v and e.
Sound(m, v, e) == v[m.uid] > 0 /\ (m.type = "Deleted" => ~e[m.uid])

MessagesInv ==
  /\ \A u \in Uids : \A i \in 1..Len(outbox[u]) : Sound(outbox[u][i], version, exists)
  /\ \A i \in 1..Len(log) : Sound(log[i], version, exists)

VerticesInv ==
  \A u \in Uids : /\ exists[u] => Created(u)
                  /\ graph[u] > 0 => Created(u)
                  /\ deleted[u] => Gone(u)

\* What a comparison found in the graph was once created; so it has left the
\* cluster when it is missed in the list that is taken later.
SyncsInv ==
  \A s \in Syncs : \A u \in sync[s].uids :
    /\ sync[s].phase = "scanned" => Created(u)
    /\ sync[s].phase \in {"marking", "expiring"} => Gone(u)

IInv == TypeOK /\ MessagesInv /\ VerticesInv /\ SyncsInv

\* Only writes and deletions in the cluster change the cluster.
LEMMA ClusterFrame ==
  ASSUME [Next]_vars
  PROVE  \/ UNCHANGED cluster
         \/ \E x \in Uids : ClusterWrite(x) \/ ClusterDelete(x)
<1>1. CASE UNCHANGED vars
  BY <1>1 DEF vars
<1>2. ASSUME NEW w \in Workers, Take(w) \/ Work(w) PROVE UNCHANGED cluster
  BY <1>2 DEF Take, Work, Check, Write, Retry, GiveUp, Commit
<1>3. ASSUME NEW s \in Syncs, SyncStep(s) PROVE UNCHANGED cluster
  BY <1>3 DEF SyncStep, SyncUnchanged, Scan, List, Abort, Mark, MarkFails, Marked, Expire
<1>4. ASSUME Restart PROVE UNCHANGED cluster
  BY <1>4 DEF Restart
<1>5. ASSUME NEW u \in Uids,
             \/ \E v \in Versions : HandleChange(u, v)
             \/ HandleDelete(u) \/ HandleMissedDelete(u) \/ Evict(u)
             \/ \E i \in DOMAIN outbox[u] : Publish(u, i) \/ PublishFails(u, i)
      PROVE  UNCHANGED cluster
  BY <1>5 DEF HandleChange, HandleDelete, HandleMissedDelete, Evict, Publish, PublishFails
<1>6. QED
  BY <1>1, <1>2, <1>3, <1>4, <1>5 DEF Next

\* No step brings back what has left the cluster.
LEMMA GoneForGood ==
  ASSUME IInv, [Next]_vars, NEW u \in Uids
  PROVE  (Created(u) => Created(u)') /\ (Gone(u) => Gone(u)')
<1>1. /\ version \in [Uids -> 0..MaxChanges] /\ exists \in [Uids -> BOOLEAN]
      /\ MaxChanges \in Nat
  BY ConstantsAssumption DEF IInv, TypeOK
<1>2. CASE UNCHANGED cluster
  BY <1>2 DEF cluster, Created, Gone
<1>3. ASSUME NEW x \in Uids, ClusterWrite(x) PROVE (Created(u) => Created(u)') /\ (Gone(u) => Gone(u)')
  BY <1>1, <1>3 DEF ClusterWrite, Created, Gone
<1>4. ASSUME NEW x \in Uids, ClusterDelete(x) PROVE (Created(u) => Created(u)') /\ (Gone(u) => Gone(u)')
  BY <1>1, <1>4 DEF ClusterDelete, Created, Gone
<1>5. QED
  BY <1>2, <1>3, <1>4, ClusterFrame

\* A message stays true.
LEMMA SoundStays ==
  ASSUME IInv, [Next]_vars
  PROVE  \A m \in Message : Sound(m, version, exists) => Sound(m, version', exists')
<1> SUFFICES ASSUME NEW m \in Message, Sound(m, version, exists)
             PROVE  Sound(m, version', exists')
  OBVIOUS
<1>1. m.uid \in Uids
  BY DEF Message
<1>2. Created(m.uid) => Created(m.uid)'
  BY <1>1, GoneForGood
<1>3. Gone(m.uid) => Gone(m.uid)'
  BY <1>1, GoneForGood
<1>4. QED
  BY <1>2, <1>3 DEF Sound, Created, Gone

\* Handlers say what is true, publishers what handlers said.
LEMMA MessagesStep ==
  ASSUME IInv, [Next]_vars
  PROVE  MessagesInv'
<1>1. outbox \in [Uids -> Seq(Message)] /\ log \in Seq(Message)
  BY DEF IInv, TypeOK
<1> DEFINE SoundNow(m) == m \in Message /\ Sound(m, version', exists')
<1>2. /\ \A u \in Uids : \A i \in 1..Len(outbox[u]) : SoundNow(outbox[u][i])
      /\ \A i \in 1..Len(log) : SoundNow(log[i])
  <2>1. /\ \A u \in Uids : \A i \in 1..Len(outbox[u]) :
              outbox[u][i] \in Message /\ Sound(outbox[u][i], version, exists)
        /\ \A i \in 1..Len(log) : log[i] \in Message /\ Sound(log[i], version, exists)
    BY <1>1 DEF IInv, MessagesInv
  <2>2. QED
    BY <2>1, SoundStays
<1>3. ASSUME \A u \in Uids : \A i \in 1..Len(outbox'[u]) : SoundNow(outbox'[u][i]),
             \A i \in 1..Len(log') : SoundNow(log'[i])
      PROVE  MessagesInv'
  BY <1>3 DEF MessagesInv
<1> HIDE DEF SoundNow
<1>4. CASE UNCHANGED <<outbox, log>>
  BY <1>2, <1>3, <1>4
<1>5. ASSUME NEW u \in Uids, NEW m, SoundNow(m), m \in Message,
             outbox' = [outbox EXCEPT ![u] = Append(@, m)], UNCHANGED log
      PROVE  MessagesInv'
  <2>1. ASSUME NEW x \in Uids, NEW i \in 1..Len(outbox'[x]) PROVE SoundNow(outbox'[x][i])
    <3>1. outbox'[x][i] = m \/ (i \in 1..Len(outbox[x]) /\ outbox'[x][i] = outbox[x][i])
      BY <1>1, <1>5
    <3>2. QED
      BY <3>1, <1>2, <1>5
  <2>2. QED
    BY <1>2, <1>3, <1>5, <2>1
<1>6. ASSUME NEW u \in Uids, NEW v \in Versions, HandleChange(u, v) PROVE MessagesInv'
  <2> DEFINE m == [uid |-> u, type |-> IF seen[u] = 0 THEN "Added" ELSE "Updated",
                   version |-> v]
  <2>1. m \in Message
    BY DEF Message
  <2>2. version'[u] > 0
    BY <1>6, ConstantsAssumption DEF HandleChange, Versions, IInv, TypeOK, cluster
  <2>3. SoundNow(m)
    BY <2>1, <2>2 DEF SoundNow, Sound
  <2>4. outbox' = [outbox EXCEPT ![u] = Append(@, m)] /\ UNCHANGED log
    BY <1>6 DEF HandleChange, topic
  <2> HIDE DEF m
  <2>5. QED
    BY <1>5, <2>1, <2>3, <2>4
<1>7. ASSUME NEW u \in Uids, HandleDelete(u) PROVE MessagesInv'
  <2> DEFINE m == [uid |-> u, type |-> "Deleted", version |-> seen[u]]
  <2>1. seen[u] \in Versions
    <3>1. seen[u] \in Versions \cup {0, Done} /\ seen[u] > 0
      BY <1>7 DEF IInv, TypeOK, HandleDelete
    <3>2. QED
      BY <3>1 DEF Done
  <2>2. m \in Message
    BY <2>1 DEF Message
  <2>3. version'[u] > 0 /\ ~exists'[u]
    BY <1>7 DEF Gone, HandleDelete, cluster
  <2>4. SoundNow(m)
    BY <2>2, <2>3 DEF SoundNow, Sound
  <2>5. outbox' = [outbox EXCEPT ![u] = Append(@, m)] /\ UNCHANGED log
    BY <1>7 DEF HandleDelete, topic
  <2> HIDE DEF m
  <2>6. QED
    BY <1>5, <2>2, <2>4, <2>5
<1>8. ASSUME NEW u \in Uids, NEW i \in 1..Len(outbox[u]),
             outbox' = [outbox EXCEPT ![u] = RemoveAt(@, i)]
      PROVE  \A x \in Uids : \A j \in 1..Len(outbox'[x]) : SoundNow(outbox'[x][j])
  <2>1. ASSUME NEW x \in Uids, NEW j \in 1..Len(outbox'[x])
        PROVE  \E k \in 1..Len(outbox[x]) : outbox'[x][j] = outbox[x][k]
    <3>1. CASE x = u
      <4>1. outbox'[x] = RemoveAt(outbox[x], i) /\ outbox[x] \in Seq(Message)
        BY <3>1, <1>1, <1>8
      <4>2. QED
        BY <4>1, <3>1, <1>8, <2>1, RemoveAtKeeps
    <3>2. CASE x # u
      BY <3>2, <1>1, <1>8, <2>1
    <3>3. QED
      BY <3>1, <3>2
  <2>2. QED
    BY <2>1, <1>2
<1>9. ASSUME NEW u \in Uids, NEW i \in DOMAIN outbox[u], Publish(u, i) PROVE MessagesInv'
  <2>1. i \in 1..Len(outbox[u]) /\ outbox[u][i] \in Message
    BY <1>1
  <2>2. outbox' = [outbox EXCEPT ![u] = RemoveAt(@, i)] /\ log' = Append(log, outbox[u][i])
    BY <1>9 DEF Publish
  <2>3. ASSUME NEW k \in 1..Len(log') PROVE SoundNow(log'[k])
    <3>1. \/ k \in 1..Len(log) /\ log'[k] = log[k]
          \/ log'[k] = outbox[u][i]
      BY <1>1, <2>1, <2>2
    <3>2. QED
      BY <3>1, <1>2, <2>1
  <2>4. QED
    BY <1>3, <1>8, <2>1, <2>2, <2>3
<1>10. ASSUME NEW u \in Uids, NEW i \in DOMAIN outbox[u], PublishFails(u, i) PROVE MessagesInv'
  <2>1. i \in 1..Len(outbox[u])
    BY <1>1
  <2>2. outbox' = [outbox EXCEPT ![u] = RemoveAt(@, i)] /\ UNCHANGED log
    BY <1>10 DEF PublishFails, topic
  <2>3. QED
    BY <1>2, <1>3, <1>8, <2>1, <2>2
<1>11. CASE Restart
  <2>1. outbox' = [u \in Uids |-> <<>>] /\ UNCHANGED log
    BY <1>11 DEF Restart
  <2>2. \A x \in Uids : Len(outbox'[x]) = 0
    BY <2>1
  <2>3. QED
    BY <1>2, <1>3, <2>1, <2>2
<1>12. ASSUME NEW w \in Workers, Take(w) \/ Work(w) PROVE UNCHANGED <<outbox, log>>
  BY <1>12 DEF Take, Work, Check, Write, Retry, GiveUp, Commit, topic
<1>13. ASSUME NEW s \in Syncs, SyncStep(s) PROVE UNCHANGED <<outbox, log>>
  BY <1>13 DEF SyncStep, SyncUnchanged, Scan, List, Abort, Mark, MarkFails, Marked, Expire, topic
<1>14. ASSUME NEW u \in Uids,
              ClusterWrite(u) \/ ClusterDelete(u) \/ HandleMissedDelete(u) \/ Evict(u)
       PROVE  UNCHANGED <<outbox, log>>
  BY <1>14 DEF ClusterWrite, ClusterDelete, HandleMissedDelete, Evict, topic
<1>15. CASE UNCHANGED vars
  BY <1>15, <1>4 DEF vars, topic
<1>16. QED
  BY <1>4, <1>6, <1>7, <1>9, <1>10, <1>11, <1>12, <1>13, <1>14, <1>15 DEF Next

\* Vertices are written from messages, marked for ghosts, and removed.
LEMMA VerticesStep ==
  ASSUME IInv, [Next]_vars
  PROVE  VerticesInv'
<1>1. /\ graph \in [Uids -> 0..MaxChanges] /\ deleted \in [Uids -> BOOLEAN]
      /\ version \in [Uids -> 0..MaxChanges] /\ exists \in [Uids -> BOOLEAN]
      /\ MaxChanges \in Nat
  BY ConstantsAssumption DEF IInv, TypeOK
<1>2. \A u \in Uids : exists'[u] => Created(u)'
  <2>1. CASE UNCHANGED cluster
    BY <2>1 DEF IInv, VerticesInv, Created, cluster
  <2>2. ASSUME NEW x \in Uids, ClusterWrite(x) \/ ClusterDelete(x)
        PROVE  \A u \in Uids : exists'[u] => Created(u)'
    BY <1>1, <2>2 DEF IInv, VerticesInv, Created, ClusterWrite, ClusterDelete
  <2>3. QED
    BY <2>1, <2>2, ClusterFrame
<1>3. CASE UNCHANGED vertices
  BY <1>2, <1>3, GoneForGood DEF IInv, VerticesInv, vertices
<1>4. ASSUME NEW w \in Workers, Write(w) PROVE VerticesInv'
  <2> DEFINE m == Current(w)
  <2>1. worker[w].offset \in 1..Len(log) /\ m \in Message
    BY <1>4, CurrentIsMessage DEF IInv, Write
  <2>2. Sound(m, version, exists)
    BY <2>1 DEF IInv, MessagesInv, Current
  <2>3. UNCHANGED cluster
    BY <1>4 DEF Write
  <2>4. /\ graph' = [graph EXCEPT ![m.uid] = m.version]
        /\ deleted' = [deleted EXCEPT ![m.uid] = m.type = "Deleted"]
    BY <1>4 DEF Write
  <2>5. m.uid \in Uids
    BY <2>1 DEF Message
  <2> HIDE DEF m
  <2>6. ASSUME NEW u \in Uids PROVE (graph'[u] > 0 => Created(u)) /\ (deleted'[u] => Gone(u))
    <3>1. CASE u = m.uid
      BY <3>1, <1>1, <2>2, <2>4, <2>5 DEF Sound, Created, Gone
    <3>2. CASE u # m.uid
      BY <3>2, <1>1, <2>4 DEF IInv, VerticesInv
    <3>3. QED
      BY <3>1, <3>2
  <2>7. QED
    BY <1>2, <2>6, GoneForGood DEF VerticesInv
<1>5. ASSUME NEW s \in Syncs, NEW x \in Uids, Mark(s, x) PROVE VerticesInv'
  <2>1. Gone(x)
    BY <1>5 DEF IInv, SyncsInv, Mark
  <2>2. UNCHANGED graph /\ \A u \in Uids : deleted'[u] => deleted[u] \/ u = x
    BY <1>1, <1>5 DEF Mark
  <2>3. QED
    BY <1>2, <2>1, <2>2, GoneForGood DEF IInv, VerticesInv
<1>6. ASSUME NEW s \in Syncs, Expire(s) PROVE VerticesInv'
  <2>1. PICK removed \in SUBSET sync[s].uids :
          /\ graph' = [u \in Uids |-> IF u \in removed THEN 0 ELSE graph[u]]
          /\ deleted' = [u \in Uids |-> deleted[u] /\ u \notin removed]
    BY <1>6 DEF Expire
  <2>2. \A u \in Uids : (graph'[u] > 0 => graph[u] > 0) /\ (deleted'[u] => deleted[u])
    BY <1>1, <2>1
  <2>3. QED
    BY <1>2, <2>2, GoneForGood DEF IInv, VerticesInv
<1>7. ASSUME NEW w \in Workers, Take(w) \/ Check(w) \/ Retry(w) \/ GiveUp(w) \/ Commit(w)
      PROVE  UNCHANGED vertices
  BY <1>7 DEF Take, Check, Retry, GiveUp, Commit
<1>8. ASSUME NEW s \in Syncs,
             \/ Scan(s) \/ (\E answered \in Answers : List(s, answered)) \/ Abort(s)
             \/ (\E u \in Uids : MarkFails(s, u)) \/ Marked(s)
      PROVE  UNCHANGED vertices
  BY <1>8 DEF Scan, List, Abort, MarkFails, Marked
<1>9. ASSUME NEW u \in Uids,
             \/ ClusterWrite(u) \/ ClusterDelete(u)
             \/ \E v \in Versions : HandleChange(u, v)
             \/ HandleDelete(u) \/ HandleMissedDelete(u) \/ Evict(u)
             \/ \E i \in DOMAIN outbox[u] : Publish(u, i) \/ PublishFails(u, i)
      PROVE  UNCHANGED vertices
  BY <1>9 DEF ClusterWrite, ClusterDelete, HandleChange, HandleDelete, HandleMissedDelete,
              Evict, Publish, PublishFails
<1>10. CASE Restart
  BY <1>10, <1>3 DEF Restart
<1>11. CASE UNCHANGED vars
  BY <1>11, <1>3 DEF vars
<1>12. QED
  BY <1>3, <1>4, <1>5, <1>6, <1>7, <1>8, <1>9, <1>10, <1>11 DEF Next, Work, SyncStep

\* A comparison that lists every kind calls only those ghosts that have left.
LEMMA SyncsStep ==
  ASSUME IInv, [Next]_vars, ~PartialLists
  PROVE  SyncsInv'
<1>1. sync \in [Syncs -> Sync]
  BY DEF IInv, TypeOK
<1>2. \A s \in Syncs : sync[s].uids \subseteq Uids
  BY <1>1 DEF Sync
<1>3. CASE UNCHANGED sync
  BY <1>2, <1>3, GoneForGood DEF IInv, SyncsInv
<1>4. ASSUME NEW s \in Syncs, NEW x, sync' = [sync EXCEPT ![s] = x], UNCHANGED cluster,
             \A u \in x.uids :
               /\ u \in Uids
               /\ x.phase = "scanned" => Created(u)
               /\ x.phase \in {"marking", "expiring"} => Gone(u)
      PROVE  SyncsInv'
  <2>1. ASSUME NEW t \in Syncs, NEW u \in sync'[t].uids
        PROVE  /\ u \in Uids
               /\ sync'[t].phase = "scanned" => Created(u)
               /\ sync'[t].phase \in {"marking", "expiring"} => Gone(u)
    <3>1. CASE t = s
      <4>1. sync'[t] = x
        BY <3>1, <1>1, <1>4
      <4>2. QED
        BY <4>1, <2>1, <1>4
    <3>2. CASE t # s
      BY <3>2, <2>1, <1>1, <1>2, <1>4 DEF IInv, SyncsInv
    <3>3. QED
      BY <3>1, <3>2
  <2>2. QED
    BY <2>1, GoneForGood DEF SyncsInv
<1>5. ASSUME NEW s \in Syncs, SyncStep(s) PROVE UNCHANGED cluster
  BY <1>5 DEF SyncStep, SyncUnchanged, Scan, List, Abort, Mark, MarkFails, Marked, Expire
<1>6. ASSUME NEW s \in Syncs, Scan(s) PROVE SyncsInv'
  <2> DEFINE x == [phase |-> "scanned", uids |-> LiveVertices]
  <2>1. \A u \in x.uids : u \in Uids /\ Created(u)
    BY DEF LiveVertices, IInv, VerticesInv
  <2>2. sync' = [sync EXCEPT ![s] = x] /\ x.phase = "scanned"
    BY <1>6 DEF Scan
  <2>3. UNCHANGED cluster
    BY <1>5, <1>6 DEF SyncStep
  <2> HIDE DEF x
  <2>4. QED
    BY <1>4, <2>1, <2>2, <2>3
<1>7. ASSUME NEW s \in Syncs, NEW answered \in Answers, List(s, answered) PROVE SyncsInv'
  <2> DEFINE x == [phase |-> "marking", uids |-> Ghosts(sync[s].uids, answered)]
  <2>1. answered = Uids /\ sync[s].phase = "scanned"
    BY <1>7 DEF Answers, List
  <2>2. \A u \in x.uids : u \in Uids /\ Gone(u)
    BY <1>2, <2>1 DEF Ghosts, IInv, SyncsInv, Gone, Created
  <2>3. sync' = [sync EXCEPT ![s] = x] /\ x.phase = "marking"
    BY <1>7 DEF List
  <2>4. UNCHANGED cluster
    BY <1>5, <1>7 DEF SyncStep
  <2> HIDE DEF x
  <2>5. QED
    BY <1>4, <2>2, <2>3, <2>4
<1>8. ASSUME NEW s \in Syncs, NEW v \in Uids, Mark(s, v) \/ MarkFails(s, v) PROVE SyncsInv'
  <2> DEFINE x == [sync[s] EXCEPT !.uids = @ \ {v}]
  <2>1. x.phase = "marking" /\ sync[s].phase = "marking" /\ x.uids \subseteq sync[s].uids
    BY <1>1, <1>8 DEF Mark, MarkFails, Sync
  <2>2. \A u \in x.uids : u \in Uids /\ Gone(u)
    BY <1>2, <2>1 DEF IInv, SyncsInv
  <2>3. sync' = [sync EXCEPT ![s] = x]
    BY <1>8 DEF Mark, MarkFails
  <2>4. UNCHANGED cluster
    BY <1>5, <1>8 DEF SyncStep
  <2> HIDE DEF x
  <2>5. QED
    BY <1>4, <2>1, <2>2, <2>3, <2>4
<1>9. ASSUME NEW s \in Syncs, sync' = [sync EXCEPT ![s] = IdleSync], SyncStep(s) PROVE SyncsInv'
  <2>1. IdleSync.uids = {} /\ UNCHANGED cluster
    BY <1>5, <1>9 DEF IdleSync
  <2>2. QED
    BY <1>4, <1>9, <2>1
<1>10. ASSUME NEW s \in Syncs, NEW expired \in SUBSET Tombstones, SyncStep(s),
              sync' = [sync EXCEPT ![s] = [phase |-> "expiring", uids |-> expired]]
       PROVE  SyncsInv'
  <2> DEFINE x == [phase |-> "expiring", uids |-> expired]
  <2>1. \A u \in x.uids : u \in Uids /\ Gone(u)
    BY DEF Tombstones, IInv, VerticesInv
  <2>2. x.phase = "expiring"
    OBVIOUS
  <2>3. UNCHANGED cluster
    BY <1>5, <1>10
  <2>4. sync' = [sync EXCEPT ![s] = x]
    BY <1>10
  <2> HIDE DEF x
  <2>5. QED
    BY <1>4, <2>1, <2>2, <2>3, <2>4
<1>11. ASSUME NEW s \in Syncs, SyncStep(s) PROVE SyncsInv'
  <2>1. CASE Abort(s) \/ Marked(s)
    BY <1>9, <1>10, <1>11, <2>1 DEF Abort, Marked, Ends
  <2>2. CASE Expire(s)
    BY <1>9, <1>11, <2>2 DEF Expire
  <2>3. QED
    BY <1>6, <1>7, <1>8, <1>11, <2>1, <2>2 DEF SyncStep
<1>12. CASE Restart
  BY <1>12 DEF Restart, SyncsInv, IdleSync
<1>13. ASSUME NEW w \in Workers, Take(w) \/ Work(w) PROVE UNCHANGED sync
  BY <1>13 DEF Take, Work, Check, Write, Retry, GiveUp, Commit
<1>14. ASSUME NEW u \in Uids,
              \/ ClusterWrite(u) \/ ClusterDelete(u)
              \/ \E v \in Versions : HandleChange(u, v)
              \/ HandleDelete(u) \/ HandleMissedDelete(u) \/ Evict(u)
              \/ \E i \in DOMAIN outbox[u] : Publish(u, i) \/ PublishFails(u, i)
       PROVE  UNCHANGED sync
  BY <1>14 DEF ClusterWrite, ClusterDelete, HandleChange, HandleDelete, HandleMissedDelete,
               Evict, Publish, PublishFails
<1>15. CASE UNCHANGED vars
  BY <1>15, <1>3 DEF vars
<1>16. QED
  BY <1>3, <1>11, <1>12, <1>13, <1>14, <1>15 DEF Next

LEMMA InitHolds == Init => IInv
<1>1. ASSUME Init PROVE MessagesInv /\ VerticesInv /\ SyncsInv
  BY <1>1 DEF Init, MessagesInv, VerticesInv, SyncsInv, IdleSync
<1>2. QED
  BY <1>1, InitTypes DEF IInv

LEMMA StepHolds == ~PartialLists /\ IInv /\ [Next]_vars => IInv'
BY StepTypes, MessagesStep, VerticesStep, SyncsStep DEF IInv

\* The invariant holds of every behaviour.
LEMMA AlwaysIInv ==
  ASSUME ~PartialLists
  PROVE  Spec => []IInv
<1>1. IInv /\ [Next]_vars => IInv'
  BY StepHolds
<1>2. QED
  BY <1>1, InitHolds, PTL DEF Spec

-----------------------------------------------------------------------------
\* What is marked as deleted has left the cluster: no late or repeated message
\* and no comparison marks a resource that is there, if every kind is listed.
THEOREM OnlyGhostsAlwaysMarked ==
  ASSUME ~PartialLists
  PROVE  Spec => []OnlyGhostsMarked
<1>1. IInv => OnlyGhostsMarked
  BY DEF IInv, VerticesInv, OnlyGhostsMarked, Gone
<1>2. QED
  BY <1>1, AlwaysIInv, PTL

\* The removal of old tombstones never takes the vertex of a resource that is
\* in the cluster, however much later than its query it happens.
THEOREM LiveVertexAlwaysStays ==
  ASSUME ~PartialLists
  PROVE  Spec => LiveVertexStays
<1>1. ASSUME IInv, [Next]_vars, NEW u \in Uids, exists'[u], graph[u] > 0
      PROVE  graph'[u] > 0
  <2>1. /\ graph \in [Uids -> 0..MaxChanges] /\ MaxChanges \in Nat
    BY <1>1, ConstantsAssumption DEF IInv, TypeOK
  <2>2. ~Gone(u)
    BY <1>1, GoneForGood DEF Gone
  <2>3. CASE graph'[u] = graph[u]
    BY <1>1, <2>3
  <2>4. ASSUME NEW w \in Workers, Write(w) PROVE graph'[u] > 0
    <3>1. Current(w) \in Message
      BY <1>1, <2>4, CurrentIsMessage DEF IInv, Write
    <3>2. Current(w).version > 0
      BY <3>1, ConstantsAssumption DEF Message, Versions
    <3>3. graph' = [graph EXCEPT ![Current(w).uid] = Current(w).version]
      BY <2>4 DEF Write
    <3>4. QED
      BY <1>1, <2>1, <3>2, <3>3
  <2>5. ASSUME NEW s \in Syncs, Expire(s) PROVE graph'[u] > 0
    <3>1. PICK removed \in SUBSET sync[s].uids :
            graph' = [x \in Uids |-> IF x \in removed THEN 0 ELSE graph[x]]
      BY <2>5 DEF Expire
    <3>2. u \notin removed
      BY <1>1, <2>2, <2>5, <3>1 DEF IInv, SyncsInv, Expire
    <3>3. QED
      BY <1>1, <3>1, <3>2
  <2>6. ASSUME NEW w \in Workers, Take(w) \/ Check(w) \/ Retry(w) \/ GiveUp(w) \/ Commit(w)
        PROVE  UNCHANGED graph
    BY <2>6 DEF Take, Check, Retry, GiveUp, Commit, vertices
  <2>7. ASSUME NEW s \in Syncs,
               \/ Scan(s) \/ (\E answered \in Answers : List(s, answered)) \/ Abort(s)
               \/ (\E x \in Uids : Mark(s, x) \/ MarkFails(s, x)) \/ Marked(s)
        PROVE  UNCHANGED graph
    BY <2>7 DEF Scan, List, Abort, Mark, MarkFails, Marked, vertices
  <2>8. ASSUME NEW x \in Uids,
               \/ ClusterWrite(x) \/ ClusterDelete(x)
               \/ \E v \in Versions : HandleChange(x, v)
               \/ HandleDelete(x) \/ HandleMissedDelete(x) \/ Evict(x)
               \/ \E i \in DOMAIN outbox[x] : Publish(x, i) \/ PublishFails(x, i)
        PROVE  UNCHANGED graph
    BY <2>8 DEF ClusterWrite, ClusterDelete, HandleChange, HandleDelete, HandleMissedDelete,
                Evict, Publish, PublishFails, vertices
  <2>9. CASE Restart \/ UNCHANGED vars
    BY <2>3, <2>9 DEF Restart, vars, vertices
  <2>10. QED
    BY <1>1, <2>3, <2>4, <2>5, <2>6, <2>7, <2>8, <2>9 DEF Next, Work, SyncStep
<1>2. IInv /\ [Next]_vars => [\A u \in Uids : exists'[u] /\ graph[u] > 0 => graph'[u] > 0]_vars
  BY <1>1
<1>3. QED
  BY <1>2, AlwaysIInv, PTL DEF Spec, LiveVertexStays
-----------------------------------------------------------------------------
(* When nothing is on its way the graph has caught up.                     *)

\* What is left of a sequence is in the same order.
LEMMA RemoveAtShifts ==
  ASSUME NEW S, NEW q \in Seq(S), NEW i \in 1..Len(q)
  PROVE  /\ RemoveAt(q, i) \in Seq(S) /\ Len(RemoveAt(q, i)) = Len(q) - 1
         /\ \A j \in 1..(i - 1) : RemoveAt(q, i)[j] = q[j]
         /\ \A j \in i..(Len(q) - 1) : RemoveAt(q, i)[j] = q[j + 1]
<1> DEFINE a == SubSeq(q, 1, i - 1)
           b == SubSeq(q, i + 1, Len(q))
<1>1. /\ a \in Seq(S) /\ Len(a) = i - 1
      /\ \A j \in 1..Len(a) : a[j] = q[j]
  OBVIOUS
<1>2. /\ b \in Seq(S) /\ Len(b) = Len(q) - i
      /\ \A j \in 1..Len(b) : b[j] = q[i + j]
  OBVIOUS
<1>3. RemoveAt(q, i) = a \o b
  BY DEF RemoveAt
<1> HIDE DEF a, b
<1>4. /\ a \o b \in Seq(S) /\ Len(a \o b) = Len(a) + Len(b)
      /\ \A j \in 1..Len(a) + Len(b) :
           (a \o b)[j] = IF j <= Len(a) THEN a[j] ELSE b[j - Len(a)]
  BY <1>1, <1>2, ConcatProperties, Zenon
<1>5. \A j \in 1..(i - 1) : (a \o b)[j] = q[j]
  BY <1>1, <1>2, <1>4
<1>6. ASSUME NEW j \in i..(Len(q) - 1) PROVE (a \o b)[j] = q[j + 1]
  <2>1. j \in 1..Len(a) + Len(b) /\ ~(j <= Len(a)) /\ j - Len(a) \in 1..Len(b)
    BY <1>1, <1>2
  <2>2. (a \o b)[j] = b[j - Len(a)] /\ b[j - Len(a)] = q[i + (j - Len(a))]
    BY <2>1, <1>2, <1>4
  <2>3. i + (j - Len(a)) = j + 1
    BY <1>1
  <2>4. QED
    BY <2>2, <2>3
<1>7. QED
  BY <1>1, <1>2, <1>3, <1>4, <1>5, <1>6

\* A worker past the check, or with a message that is not checked.
MayWrite(w) ==
  \/ worker[w].phase = "write"
  \/ worker[w].phase = "check" /\ Current(w).type = "Added"

\* The version of u that the informer told last is about to be overwritten: by
\* an older "Added" that is still to come, or by a worker.
LateAdded(m, u) == m.uid = u /\ m.type = "Added" /\ m.version # seen[u]
Threatens(w, u) == WorksOn(w, u) /\ MayWrite(w) /\ Current(w).version # seen[u]

OutboxClean(u) == \A j \in 1..Len(outbox[u]) : ~LateAdded(outbox[u][j], u)
NoThreat(u) ==
  /\ \A w \in Workers : ~Threatens(w, u)
  /\ \A j \in (fetched + 1)..Len(log) : ~LateAdded(log[j], u)
  /\ OutboxClean(u)

\* Where that version is: with a goroutine that publishes it, in the topic,
\* with a worker, or in the graph.  Only from its message on nothing else may
\* be written.
InOutbox(u) == \E i \in 1..Len(outbox[u]) : outbox[u][i].version = seen[u]
InLog(u) ==
  /\ OutboxClean(u)
  /\ \E i \in (fetched + 1)..Len(log) :
       /\ log[i].uid = u /\ log[i].version = seen[u]
       /\ \A j \in (i + 1)..Len(log) : ~LateAdded(log[j], u)
WithWorker(u) ==
  /\ NoThreat(u)
  /\ \E w \in Workers : /\ WorksOn(w, u) /\ worker[w].phase \in {"check", "write"}
                        /\ Current(w).version = seen[u]
Written(u) == graph[u] = seen[u] /\ ~deleted[u] /\ NoThreat(u)

Follows(u) ==
  exists[u] /\ u \notin disturbed /\ seen[u] > 0 =>
    \/ Written(u)
    \/ cache[u] = seen[u] /\ (InOutbox(u) \/ InLog(u) \/ WithWorker(u))

\* What the handlers have done: a "Deleted" is the last thing they say, an
\* "Added" the first, and the cache has what they said last, or nothing.
Handled(u) ==
  /\ seen[u] # 0 => Created(u)
  /\ seen[u] = 0 => outbox[u] = <<>> /\ cache[u] = 0
  /\ exists[u] => seen[u] # Done /\ cache[u] \in {0, seen[u]}
  /\ \A i \in 1..Len(outbox[u]) :
       /\ outbox[u][i].uid = u
       /\ i > 1 => outbox[u][i].type # "Added"
       /\ outbox[u][i].type = "Deleted" => seen[u] = Done /\ cache[u] = 0
  /\ \A i \in 1..Len(log) :
       log[i].uid = u /\ log[i].type = "Deleted" => seen[u] = Done /\ cache[u] = 0

\* The last message of u in the topic is its deletion, and was taken.
Ended(u, p) ==
  /\ log[p].uid = u /\ log[p].type = "Deleted"
  /\ \A q \in (p + 1)..Len(log) : log[q].uid # u
\* Then the tombstone is there or still to be written, and nobody writes another.
Buried(u) ==
  /\ \/ graph[u] = 0 \/ deleted[u]
     \/ \E w \in Workers : /\ WorksOn(w, u) /\ worker[w].phase \in {"check", "write"}
                           /\ Current(w).type = "Deleted"
  /\ \A w \in Workers : WorksOn(w, u) /\ MayWrite(w) => Current(w).type = "Deleted"

CatchUpInv ==
  /\ marked <= fetched
  /\ \A u \in Uids : Handled(u) /\ Follows(u)
  /\ \A u \in Uids \ disturbed : \A p \in 1..fetched : Ended(u, p) => Buried(u)

\* Steps that have nothing to do with what the handlers do for u.
LEMMA HandledFrame ==
  ASSUME IInv, [Next]_vars, NEW u \in Uids, Handled(u),
         seen'[u] = seen[u], outbox'[u] = outbox[u], log' = log, cache'[u] \in {cache[u], 0},
         exists'[u] => exists[u] \/ version[u] = 0
  PROVE  Handled(u)'
<1>1. Created(u) => Created(u)'
  BY GoneForGood
<1>2. exists'[u] => seen'[u] # Done /\ cache'[u] \in {0, seen'[u]}
  <2>1. CASE exists[u]
    BY <2>1 DEF Handled
  <2>2. CASE version[u] = 0
    BY <2>2 DEF Handled, Created, Done
  <2>3. QED
    BY <2>1, <2>2
<1>3. QED
  BY <1>1, <1>2 DEF Handled

LEMMA HandledStep ==
  ASSUME IInv, [Next]_vars, \A x \in Uids : Handled(x), NEW u \in Uids
  PROVE  Handled(u)'
<1>1. /\ version \in [Uids -> 0..MaxChanges] /\ exists \in [Uids -> BOOLEAN]
      /\ seen \in [Uids -> Versions \cup {0, Done}] /\ cache \in [Uids -> 0..MaxChanges]
      /\ outbox \in [Uids -> Seq(Message)] /\ log \in Seq(Message) /\ MaxChanges \in Nat
  BY ConstantsAssumption DEF IInv, TypeOK
<1>2. CASE UNCHANGED vars
  BY <1>2, HandledFrame DEF vars, cluster, topic
<1>3. ASSUME NEW x \in Uids, ClusterWrite(x) \/ ClusterDelete(x) PROVE Handled(u)'
  <2>1. exists'[u] => exists[u] \/ version[u] = 0
    <3>1. CASE x # u
      BY <1>1, <1>3, <3>1 DEF ClusterWrite, ClusterDelete
    <3>2. CASE x = u
      <4>1. version[u] \in 0..MaxChanges /\ (version[u] > 0 \/ version[u] = 0)
        BY <1>1
      <4>2. ClusterDelete(u) => ~exists'[u]
        BY <1>1 DEF ClusterDelete
      <4>3. QED
        BY <1>3, <3>2, <4>1, <4>2 DEF ClusterWrite
    <3>3. QED
      BY <3>1, <3>2
  <2>2. QED
    BY <1>3, <2>1, HandledFrame DEF ClusterWrite, ClusterDelete, topic
<1>4. ASSUME NEW x \in Uids, x # u,
             \/ \E v \in Versions : HandleChange(x, v)
             \/ HandleDelete(x) \/ HandleMissedDelete(x) \/ Evict(x)
             \/ \E i \in DOMAIN outbox[x] : PublishFails(x, i)
      PROVE  Handled(u)'
  BY <1>1, <1>4, HandledFrame DEF HandleChange, HandleDelete, HandleMissedDelete, Evict,
     PublishFails, cluster, topic
<1>5. ASSUME NEW v \in Versions, HandleChange(u, v) PROVE Handled(u)'
  <2> DEFINE m == [uid |-> u, type |-> IF seen[u] = 0 THEN "Added" ELSE "Updated",
                   version |-> v]
  <2>1. m \in Message
    BY DEF Message
  <2>2. /\ outbox'[u] = Append(outbox[u], m) /\ log' = log /\ UNCHANGED cluster
        /\ seen'[u] = v /\ cache'[u] = v /\ seen[u] # Done /\ v <= version[u] /\ v \in Nat
        /\ v > 0
    BY <1>1, <1>5, ConstantsAssumption DEF HandleChange, topic, Versions
  <2>3. Created(u)' /\ v # Done
    BY <1>1, <2>2 DEF Created, cluster, Done
  <2>4. outbox[u] \in Seq(Message) /\ Len(outbox'[u]) = Len(outbox[u]) + 1
        /\ outbox'[u][Len(outbox[u]) + 1] = m
        /\ \A i \in 1..Len(outbox[u]) : outbox'[u][i] = outbox[u][i]
    BY <1>1, <2>1, <2>2
  <2>5. m.type # "Deleted" /\ m.uid = u /\ (m.type = "Added" => Len(outbox[u]) = 0)
    BY DEF Handled
  <2> HIDE DEF m
  <2>6. ASSUME NEW i \in 1..Len(outbox'[u])
        PROVE  /\ outbox'[u][i].uid = u
               /\ i > 1 => outbox'[u][i].type # "Added"
               /\ outbox'[u][i].type # "Deleted"
    <3>1. CASE i \in 1..Len(outbox[u])
      BY <2>2, <2>4, <3>1 DEF Handled
    <3>2. CASE i = Len(outbox[u]) + 1
      BY <2>4, <2>5, <3>2
    <3>3. QED
      BY <2>4, <2>6, <3>1, <3>2
  <2>7. \A i \in 1..Len(log') : ~(log'[i].uid = u /\ log'[i].type = "Deleted")
    BY <2>2 DEF Handled
  <2>8. QED
    BY <2>2, <2>3, <2>6, <2>7 DEF Handled
<1>6. CASE HandleDelete(u)
  <2> DEFINE m == [uid |-> u, type |-> "Deleted", version |-> seen[u]]
  <2>1. m \in Message
    <3>1. seen[u] \in Versions \cup {0, Done} /\ seen[u] > 0
      BY <1>1, <1>6 DEF HandleDelete
    <3>2. seen[u] \in Versions
      BY <3>1 DEF Done
    <3>3. QED
      BY <3>2 DEF Message
  <2>2. /\ outbox'[u] = Append(outbox[u], m) /\ log' = log /\ UNCHANGED cluster
        /\ seen'[u] = Done /\ cache'[u] = 0 /\ Gone(u)
    BY <1>1, <1>6 DEF HandleDelete, topic
  <2>3. Created(u)' /\ ~exists'[u] /\ Done # 0
    BY <2>2 DEF Created, cluster, Done, Gone
  <2>4. outbox[u] \in Seq(Message) /\ Len(outbox'[u]) = Len(outbox[u]) + 1
        /\ outbox'[u][Len(outbox[u]) + 1] = m
        /\ \A i \in 1..Len(outbox[u]) : outbox'[u][i] = outbox[u][i]
    BY <1>1, <2>1, <2>2
  <2>5. m.type # "Added" /\ m.uid = u
    OBVIOUS
  <2> HIDE DEF m
  <2>6. ASSUME NEW i \in 1..Len(outbox'[u])
        PROVE  outbox'[u][i].uid = u /\ (i > 1 => outbox'[u][i].type # "Added")
    <3>1. CASE i \in 1..Len(outbox[u])
      BY <2>2, <2>4, <3>1 DEF Handled
    <3>2. CASE i = Len(outbox[u]) + 1
      BY <2>4, <2>5, <3>2
    <3>3. QED
      BY <2>4, <2>6, <3>1, <3>2
  <2>7. QED
    BY <2>2, <2>3, <2>6 DEF Handled
<1>7. CASE HandleMissedDelete(u)
  <2>1. /\ seen'[u] = Done /\ Gone(u) /\ UNCHANGED <<cluster, cache, outbox>> /\ log' = log
        /\ seen[u] # Done
    BY <1>1, <1>7 DEF HandleMissedDelete, topic
  <2>2. \A i \in 1..Len(outbox[u]) : outbox[u][i].type # "Deleted"
    BY <2>1 DEF Handled
  <2>3. \A i \in 1..Len(log) : ~(log[i].uid = u /\ log[i].type = "Deleted")
    BY <2>1 DEF Handled
  <2>4. Created(u)' /\ ~exists'[u] /\ Done # 0
    BY <2>1 DEF Created, cluster, Done, Gone
  <2>5. QED
    BY <2>1, <2>2, <2>3, <2>4 DEF Handled
<1>8. CASE Evict(u)
  BY <1>1, <1>8, HandledFrame DEF Evict, cluster, topic
<1>9. ASSUME NEW i \in DOMAIN outbox[u], Publish(u, i) \/ PublishFails(u, i)
      PROVE  Handled(u)'
  <2>1. /\ outbox'[u] = RemoveAt(outbox[u], i) /\ UNCHANGED <<cluster, seen, cache>>
        /\ log' = log \/ log' = Append(log, outbox[u][i])
    BY <1>1, <1>9 DEF Publish, PublishFails, topic
  <2>2. outbox[u] \in Seq(Message) /\ i \in 1..Len(outbox[u]) /\ outbox[u][i] \in Message
    BY <1>1
  <2>3. /\ Len(outbox'[u]) = Len(outbox[u]) - 1
        /\ \A j \in 1..(i - 1) : outbox'[u][j] = outbox[u][j]
        /\ \A j \in i..(Len(outbox[u]) - 1) : outbox'[u][j] = outbox[u][j + 1]
    BY <2>1, <2>2, RemoveAtShifts
  <2>4. ASSUME NEW j \in 1..Len(outbox'[u])
        PROVE  /\ outbox'[u][j].uid = u
               /\ j > 1 => outbox'[u][j].type # "Added"
               /\ outbox'[u][j].type = "Deleted" => seen[u] = Done /\ cache[u] = 0
    <3>1. CASE j < i
      <4>1. j \in 1..(i - 1) /\ j \in 1..Len(outbox[u])
        BY <2>2, <2>3, <3>1
      <4>2. QED
        BY <2>3, <4>1 DEF Handled
    <3>2. CASE j >= i
      <4>1. j \in i..(Len(outbox[u]) - 1) /\ j + 1 \in 1..Len(outbox[u]) /\ j + 1 > 1
        BY <2>2, <2>3, <3>2
      <4>2. QED
        BY <2>3, <4>1 DEF Handled
    <3>3. QED
      BY <2>2, <2>3, <3>1, <3>2
  <2>5. ASSUME NEW j \in 1..Len(log'), log'[j].uid = u, log'[j].type = "Deleted"
        PROVE  seen[u] = Done /\ cache[u] = 0
    <3>1. \/ j \in 1..Len(log) /\ log'[j] = log[j]
          \/ log'[j] = outbox[u][i]
      BY <1>1, <2>1, <2>2
    <3>2. QED
      BY <2>2, <2>5, <3>1 DEF Handled
  <2>6. seen[u] # 0
    BY <2>2 DEF Handled
  <2>7. QED
    BY <2>1, <2>4, <2>5, <2>6 DEF Handled, Created, cluster
<1>10. ASSUME NEW x \in Uids, x # u, NEW i \in DOMAIN outbox[x], Publish(x, i)
       PROVE  Handled(u)'
  <2>1. /\ outbox'[u] = outbox[u] /\ UNCHANGED <<cluster, seen, cache>>
        /\ log' = Append(log, outbox[x][i])
    BY <1>1, <1>10 DEF Publish
  <2>2. outbox[x][i] \in Message /\ outbox[x][i].uid = x
    BY <1>1 , <1>10 DEF Handled
  <2>3. \A j \in 1..Len(log') : log'[j].uid = u => j \in 1..Len(log) /\ log'[j] = log[j]
    BY <1>1, <1>10, <2>1, <2>2
  <2>4. QED
    BY <2>1, <2>3 DEF Handled, Created, cluster
<1>11. CASE Restart
  <2>1. /\ seen'[u] = IF exists[u] \/ version[u] = 0 THEN 0 ELSE Done
        /\ cache'[u] = 0 /\ outbox'[u] = <<>> /\ log' = log /\ UNCHANGED cluster
    BY <1>11 DEF Restart
  <2>2. \A i \in 1..Len(log) : log[i].uid = u /\ log[i].type = "Deleted" => Gone(u)
    BY DEF IInv, MessagesInv, Sound, Gone
  <2>3. Len(outbox'[u]) = 0
    BY <2>1
  <2>4. QED
    BY <1>1, <2>1, <2>2, <2>3 DEF Handled, Created, cluster, Done, Gone
<1>12. ASSUME NEW w \in Workers, Take(w) \/ Work(w) PROVE Handled(u)'
  BY <1>12, HandledFrame DEF Take, Work, Check, Write, Retry, GiveUp, Commit, cluster, topic
<1>13. ASSUME NEW s \in Syncs, SyncStep(s) PROVE Handled(u)'
  BY <1>13, HandledFrame DEF SyncStep, SyncUnchanged, Scan, List, Abort, Mark, MarkFails,
     Marked, Expire, cluster, topic
<1>14. QED
  BY <1>2, <1>3, <1>4, <1>5, <1>6, <1>7, <1>8, <1>9, <1>10, <1>11, <1>12, <1>13 DEF Next

-----------------------------------------------------------------------------
\* Steps that neither tell of u nor bring a message of it further.
LEMMA FollowsFrame ==
  ASSUME NEW u \in Uids, Follows(u), UNCHANGED <<log, fetched, worker>>,
         u \in disturbed => u \in disturbed', exists'[u] => exists[u] \/ seen[u] = 0,
         seen'[u] = seen[u], cache'[u] = cache[u], outbox'[u] = outbox[u],
         exists'[u] => graph'[u] = graph[u] /\ deleted'[u] = deleted[u]
  PROVE  Follows(u)'
<1>1. \A w \in Workers : Threatens(w, u)' <=> Threatens(w, u)
  BY DEF Threatens, WorksOn, MayWrite, Current
<1>2. \A m : LateAdded(m, u)' <=> LateAdded(m, u)
  BY DEF LateAdded
<1>3. NoThreat(u)' <=> NoThreat(u)
  BY <1>1, <1>2 DEF NoThreat, OutboxClean, LateAdded
<1>4. (InOutbox(u)' <=> InOutbox(u)) /\ (InLog(u)' <=> InLog(u))
  BY <1>2 DEF InOutbox, InLog, OutboxClean, LateAdded
<1>5. WithWorker(u)' <=> WithWorker(u)
  BY <1>3 DEF WithWorker, WorksOn, Current
<1>6. exists'[u] => (Written(u)' <=> Written(u))
  BY <1>3 DEF Written
<1>7. QED
  BY <1>3, <1>4, <1>5, <1>6 DEF Follows

\* What the informer tells is on its way from then on.
LEMMA FollowsChange ==
  ASSUME IInv, NEW u \in Uids, NEW v \in Versions, HandleChange(u, v)
  PROVE  Follows(u)'
<1> DEFINE m == [uid |-> u, type |-> IF seen[u] = 0 THEN "Added" ELSE "Updated",
                 version |-> v]
<1>1. m \in Message /\ outbox[u] \in Seq(Message)
  BY DEF Message, IInv, TypeOK
<1>2. outbox'[u] = Append(outbox[u], m) /\ seen'[u] = v /\ cache'[u] = v
  BY DEF HandleChange, IInv, TypeOK
<1>3. m.version = v
  OBVIOUS
<1> HIDE DEF m
<1>4. Len(outbox[u]) + 1 \in 1..Len(outbox'[u]) /\ outbox'[u][Len(outbox[u]) + 1] = m
  BY <1>1, <1>2
<1>5. InOutbox(u)'
  BY <1>2, <1>3, <1>4 DEF InOutbox
<1>6. QED
  BY <1>2, <1>5 DEF Follows

\* An entry of the cache is only dropped without harm when all is written.
LEMMA FollowsEvict ==
  ASSUME IInv, NEW u \in Uids, Follows(u), Evict(u)
  PROVE  Follows(u)'
<1>1. /\ UNCHANGED <<exists, seen, outbox, log, fetched, worker, graph, deleted>>
      /\ disturbed' = IF Quiet(u) THEN disturbed ELSE disturbed \cup {u}
  BY DEF Evict, cluster, topic, vertices
<1>2. CASE Quiet(u)
  <2>1. Len(outbox[u]) = 0 /\ (\A i \in (fetched + 1)..Len(log) : log[i].uid # u)
        /\ \A w \in Workers : ~WorksOn(w, u)
    BY <1>2 DEF Quiet
  <2>2. ~InOutbox(u) /\ ~InLog(u) /\ ~WithWorker(u)
    BY <2>1 DEF InOutbox, InLog, WithWorker
  <2>3. Written(u) => Written(u)'
    BY <1>1 DEF Written, NoThreat, Threatens, WorksOn, MayWrite, Current, OutboxClean, LateAdded
  <2>4. QED
    BY <1>1, <1>2, <2>2, <2>3 DEF Follows
<1>3. CASE ~Quiet(u)
  BY <1>1, <1>3 DEF Follows
<1>4. QED
  BY <1>2, <1>3

\* A message that joins the topic: of another resource, or the next of u.
LEMMA FollowsPublish ==
  ASSUME IInv, NEW u \in Uids, \A y \in Uids : Handled(y), Follows(u),
         NEW x \in Uids, NEW i \in DOMAIN outbox[x], Publish(x, i)
  PROVE  Follows(u)'
<1> SUFFICES ASSUME exists'[u], u \notin disturbed', seen'[u] > 0
             PROVE  (\/ Written(u)
                     \/ cache[u] = seen[u] /\ (InOutbox(u) \/ InLog(u) \/ WithWorker(u)))'
  BY DEF Follows
<1>1. /\ UNCHANGED <<exists, seen, cache, fetched, worker, graph, deleted>>
      /\ disturbed' = IF \E j \in 1..(i - 1) : outbox[x][j].type = "Added"
                      THEN disturbed \cup {x} ELSE disturbed
      /\ log' = Append(log, outbox[x][i])
      /\ outbox' = [outbox EXCEPT ![x] = RemoveAt(@, i)]
  BY DEF Publish, cluster, vertices
<1>2. outbox \in [Uids -> Seq(Message)] /\ log \in Seq(Message) /\ fetched \in Nat
      /\ fetched <= Len(log)
  BY DEF IInv, TypeOK
<1>3. i \in 1..Len(outbox[x]) /\ outbox[x] \in Seq(Message) /\ outbox[x][i] \in Message
  BY <1>2
<1>4. /\ Len(log') = Len(log) + 1 /\ log'[Len(log) + 1] = outbox[x][i]
      /\ \A k \in 1..Len(log) : log'[k] = log[k]
  BY <1>1, <1>2, <1>3
<1>5. outbox[x][i].uid = x
  BY <1>3 DEF Handled
<1>6. \A m : LateAdded(m, u)' <=> LateAdded(m, u)
  BY <1>1 DEF LateAdded
<1>7. \A w \in Workers : /\ Threatens(w, u)' <=> Threatens(w, u)
                         /\ WorksOn(w, u)' <=> WorksOn(w, u)
                         /\ WorksOn(w, u) => Current(w)' = Current(w)
  <2>1. TAKE w \in Workers
  <2>2. worker[w].phase # "idle" => worker[w].offset \in 1..Len(log)
    BY CurrentIsMessage DEF IInv
  <2>3. worker[w].phase # "idle" => Current(w)' = Current(w)
    BY <1>1, <1>4, <2>2 DEF Current
  <2>4. QED
    BY <1>1, <2>3 DEF Threatens, WorksOn, MayWrite
<1>8. /\ Len(RemoveAt(outbox[x], i)) = Len(outbox[x]) - 1
      /\ \A j \in 1..(i - 1) : RemoveAt(outbox[x], i)[j] = outbox[x][j]
      /\ \A j \in i..(Len(outbox[x]) - 1) : RemoveAt(outbox[x], i)[j] = outbox[x][j + 1]
  BY <1>3, RemoveAtShifts
<1>9. OutboxClean(u) => OutboxClean(u)'
  <2>1. CASE x # u
    BY <1>1, <1>2, <1>6, <2>1 DEF OutboxClean
  <2>2. CASE x = u
    <3>1. outbox'[u] = RemoveAt(outbox[x], i)
      BY <1>1, <1>2, <2>2
    <3>2. \A j \in 1..Len(outbox'[u]) : \E k \in 1..Len(outbox[u]) : outbox'[u][j] = outbox[u][k]
      BY <1>3, <2>2, <3>1, RemoveAtKeeps
    <3>3. QED
      BY <1>6, <3>2 DEF OutboxClean
  <2>3. QED
    BY <2>1, <2>2
<1>10. OutboxClean(u) /\ x = u => ~LateAdded(outbox[x][i], u)
  BY <1>3 DEF OutboxClean
<1>11. OutboxClean(u) => ~LateAdded(log'[Len(log) + 1], u)
  BY <1>4, <1>5, <1>10 DEF LateAdded
<1>12. NoThreat(u) => NoThreat(u)'
  <2>1. ASSUME NoThreat(u), NEW j \in (fetched + 1)..Len(log') PROVE ~LateAdded(log'[j], u)
    <3>1. CASE j = Len(log) + 1
      BY <1>11, <2>1, <3>1 DEF NoThreat
    <3>2. CASE j # Len(log) + 1
      <4>1. j \in (fetched + 1)..Len(log) /\ log'[j] = log[j]
        BY <1>2, <1>4, <3>2
      <4>2. QED
        BY <2>1, <4>1 DEF NoThreat
    <3>3. QED
      BY <3>1, <3>2
  <2>2. QED
    BY <1>1, <1>6, <1>7, <1>9, <2>1 DEF NoThreat
<1>13. Written(u) => Written(u)'
  BY <1>1, <1>12 DEF Written
<1>14. WithWorker(u) => WithWorker(u)'
  BY <1>1, <1>7, <1>12 DEF WithWorker
<1>15. InLog(u) => InLog(u)'
  <2>1. SUFFICES ASSUME OutboxClean(u), NEW k \in (fetched + 1)..Len(log),
                        log[k].uid = u, log[k].version = seen[u],
                        \A j \in (k + 1)..Len(log) : ~LateAdded(log[j], u)
                 PROVE  InLog(u)'
    BY DEF InLog
  <2>2. k \in (fetched + 1)..Len(log') /\ log'[k] = log[k]
    BY <1>2, <1>4
  <2>3. ASSUME NEW j \in (k + 1)..Len(log') PROVE ~LateAdded(log'[j], u)
    <3>1. CASE j = Len(log) + 1
      BY <1>11, <2>1, <3>1
    <3>2. CASE j # Len(log) + 1
      <4>1. k \in Nat /\ Len(log) \in Nat /\ j \in (k + 1)..(Len(log) + 1)
        BY <1>2, <1>4, <2>1, <2>3
      <4>2. j \in (k + 1)..Len(log) /\ j \in 1..Len(log)
        BY <3>2, <4>1
      <4>3. log'[j] = log[j]
        BY <1>4, <4>2
      <4>4. QED
        BY <2>1, <4>2, <4>3
    <3>3. QED
      BY <3>1, <3>2
  <2>4. QED
    BY <1>1, <1>6, <1>9, <2>1, <2>2, <2>3 DEF InLog
<1>16. InOutbox(u) => InOutbox(u)' \/ InLog(u)'
  <2>1. CASE x # u
    BY <1>1, <1>2, <2>1 DEF InOutbox
  <2>2. SUFFICES ASSUME x = u, NEW k \in 1..Len(outbox[u]), outbox[u][k].version = seen[u]
                 PROVE  InOutbox(u)' \/ InLog(u)'
    BY <2>1 DEF InOutbox
  <2>3. outbox'[u] = RemoveAt(outbox[u], i) /\ k \in Nat /\ i \in Nat
    BY <1>1, <1>2, <1>3, <2>2
  <2>4. CASE k < i
    <3>1. k \in 1..(i - 1) /\ k \in 1..Len(outbox'[u])
      BY <1>3, <1>8, <2>2, <2>3, <2>4
    <3>2. outbox'[u][k] = outbox[u][k]
      BY <1>8, <2>2, <2>3, <3>1
    <3>3. QED
      BY <1>1, <2>2, <3>1, <3>2 DEF InOutbox
  <2>5. CASE k > i
    <3>1. k - 1 \in i..(Len(outbox[u]) - 1) /\ k - 1 \in 1..Len(outbox'[u]) /\ (k - 1) + 1 = k
      BY <1>3, <1>8, <2>2, <2>3, <2>5
    <3>2. outbox'[u][k - 1] = outbox[u][k]
      BY <1>8, <2>2, <2>3, <3>1
    <3>3. QED
      BY <1>1, <2>2, <3>1, <3>2 DEF InOutbox
  <2>6. CASE k = i
    <3>1. \A j \in 1..Len(outbox'[u]) : outbox'[u][j].type # "Added"
      <4>1. TAKE j \in 1..Len(outbox'[u])
      <4>2. CASE j < i
        <5>1. j \in 1..(i - 1)
          BY <2>3, <4>2
        <5>2. outbox[u][j].type # "Added"
          BY <1>1, <2>2, <5>1
        <5>3. QED
          BY <1>8, <2>2, <2>3, <5>1, <5>2
      <4>3. CASE j >= i
        <5>1. j \in i..(Len(outbox[u]) - 1) /\ j + 1 \in 1..Len(outbox[u]) /\ j + 1 > 1
          BY <1>3, <1>8, <2>2, <2>3, <4>3
        <5>2. outbox[u][j + 1].type # "Added"
          BY <5>1 DEF Handled
        <5>3. QED
          BY <1>8, <2>2, <2>3, <5>1, <5>2
      <4>4. QED
        BY <2>3, <4>2, <4>3
    <3>2. OutboxClean(u)'
      BY <3>1 DEF OutboxClean, LateAdded
    <3>3. Len(log) + 1 \in (fetched + 1)..Len(log')
      BY <1>2, <1>4
    <3>4. log'[Len(log) + 1].uid = u /\ log'[Len(log) + 1].version = seen'[u]
      BY <1>1, <1>4, <1>5, <2>2, <2>6
    <3>5. (Len(log) + 1 + 1)..Len(log') = {}
      BY <1>2, <1>4
    <3>6. QED
      BY <1>1, <3>2, <3>3, <3>4, <3>5 DEF InLog
  <2>7. QED
    BY <2>3, <2>4, <2>5, <2>6
<1>17. QED
  BY <1>1, <1>13, <1>14, <1>15, <1>16 DEF Follows

\* The next message is taken.  That of the newest version is a threat to nobody,
\* and nobody is one to it, unless an older write is still going on.
LEMMA FollowsTake ==
  ASSUME IInv, NEW u \in Uids, Follows(u), NEW w \in Workers, Take(w)
  PROVE  Follows(u)'
<1> DEFINE m == log[fetched + 1]
<1>1. /\ UNCHANGED <<exists, seen, cache, outbox, log, graph, deleted>>
      /\ fetched' = fetched + 1 /\ fetched < Len(log) /\ worker[w].phase = "idle"
      /\ disturbed' = IF Racing(m.uid) THEN disturbed \cup {m.uid} ELSE disturbed
  BY DEF Take, cluster, vertices
<1>2. /\ worker'[w] = [phase |-> "check", offset |-> fetched + 1, tries |-> 0]
      /\ \A y \in Workers : y # w => worker'[y] = worker[y]
  BY DEF Take, IInv, TypeOK
<1>3. fetched \in Nat /\ Len(log) \in Nat /\ fetched + 1 \in 1..Len(log) /\ log \in Seq(Message)
  BY <1>1 DEF IInv, TypeOK
<1>4. /\ WorksOn(w, u)' <=> m.uid = u
      /\ Current(w)' = m
      /\ MayWrite(w)' <=> m.type = "Added"
      /\ worker'[w].phase = "check"
  BY <1>1, <1>2 DEF WorksOn, Current, MayWrite
<1>5. ~WorksOn(w, u)
  BY <1>1 DEF WorksOn
<1>6. \A y \in Workers : y # w => /\ WorksOn(y, u)' <=> WorksOn(y, u)
                                  /\ MayWrite(y)' <=> MayWrite(y)
                                  /\ Current(y)' = Current(y)
  BY <1>1, <1>2 DEF WorksOn, Current, MayWrite
<1> HIDE DEF m
<1>7. \A n : LateAdded(n, u)' <=> LateAdded(n, u)
  BY <1>1 DEF LateAdded
<1>8. OutboxClean(u)' <=> OutboxClean(u)
  BY <1>1, <1>7 DEF OutboxClean, LateAdded
<1>9. NoThreat(u) => NoThreat(u)'
  <2>1. SUFFICES ASSUME NoThreat(u) PROVE NoThreat(u)'
    OBVIOUS
  <2>2. ~LateAdded(m, u)
    BY <1>1, <1>3, <2>1 DEF NoThreat, m
  <2>3. ~Threatens(w, u)'
    BY <1>1, <1>4, <2>2 DEF Threatens, LateAdded
  <2>4. \A y \in Workers : ~Threatens(y, u)'
    BY <1>1, <1>6, <2>1, <2>3 DEF NoThreat, Threatens
  <2>5. \A j \in (fetched' + 1)..Len(log') : j \in (fetched + 1)..Len(log)
    BY <1>1, <1>3
  <2>6. QED
    BY <1>1, <1>7, <1>8, <2>1, <2>4, <2>5 DEF NoThreat
<1>10. Written(u) => Written(u)'
  BY <1>1, <1>9 DEF Written
<1>11. WithWorker(u) => WithWorker(u)'
  <2>1. SUFFICES ASSUME NoThreat(u), NEW y \in Workers, WorksOn(y, u),
                        worker[y].phase \in {"check", "write"}, Current(y).version = seen[u]
                 PROVE  WithWorker(u)'
    BY DEF WithWorker
  <2>2. y # w
    BY <1>5, <2>1
  <2>3. QED
    BY <1>1, <1>2, <1>6, <1>9, <2>1, <2>2 DEF WithWorker
<1>12. InOutbox(u) => InOutbox(u)'
  BY <1>1 DEF InOutbox
<1>13. ASSUME InLog(u), u \notin disturbed' PROVE InLog(u)' \/ WithWorker(u)'
  <2>1. PICK i \in (fetched + 1)..Len(log) :
          /\ log[i].uid = u /\ log[i].version = seen[u]
          /\ \A j \in (i + 1)..Len(log) : ~LateAdded(log[j], u)
    BY <1>13 DEF InLog
  <2>2. OutboxClean(u)
    BY <1>13 DEF InLog
  <2>3. CASE i = fetched + 1
    <3>1. m.uid = u /\ m.version = seen[u]
      BY <2>1, <2>3 DEF m
    <3>2. ~Racing(u)
      BY <1>1, <1>13, <3>1
    <3>3. \A y \in Workers : ~(WorksOn(y, u) /\ MayWrite(y))
      BY <3>2 DEF Racing, MayWrite
    <3>4. \A y \in Workers : ~Threatens(y, u)'
      <4>1. TAKE y \in Workers
      <4>2. CASE y = w
        BY <1>1, <1>4, <3>1, <4>2 DEF Threatens
      <4>3. CASE y # w
        BY <1>6, <3>3, <4>3 DEF Threatens
      <4>4. QED
        BY <4>2, <4>3
    <3>5. \A j \in (fetched' + 1)..Len(log') : ~LateAdded(log'[j], u)
      BY <1>1, <2>1, <2>3
    <3>6. NoThreat(u)'
      BY <1>1, <1>7, <1>8, <2>2, <3>4, <3>5 DEF NoThreat
    <3>7. QED
      BY <1>1, <1>4, <3>1, <3>6 DEF WithWorker
  <2>4. CASE i # fetched + 1
    <3>1. i \in (fetched' + 1)..Len(log')
      BY <1>1, <1>3, <2>1, <2>4
    <3>2. QED
      BY <1>1, <1>7, <1>8, <2>1, <2>2, <3>1 DEF InLog
  <2>5. QED
    BY <2>3, <2>4
<1>14. u \in disturbed => u \in disturbed'
  BY <1>1
<1>15. QED
  BY <1>1, <1>10, <1>11, <1>12, <1>13, <1>14 DEF Follows

\* A step of a worker concerns its message only.
LEMMA WorkFacts ==
  ASSUME IInv, NEW w \in Workers, Work(w)
  PROVE  /\ UNCHANGED <<exists, seen, cache, outbox, log, fetched>>
         /\ worker[w].phase # "idle" /\ Current(w) \in Message
         /\ Sound(Current(w), version, exists)
         /\ \A y \in Workers : y # w => worker'[y] = worker[y]
         /\ worker'[w].phase # "idle" => Current(w)' = Current(w)
         /\ disturbed \subseteq disturbed'
         /\ worker'[w].phase \in {"idle", "check", "write", "commit"}
<1>1. worker \in [Workers -> Worker] /\ worker[w] \in Worker
  BY DEF IInv, TypeOK
<1>2. worker[w].phase # "idle"
  BY DEF Work, Check, Write, Retry, GiveUp, Commit
<1>3. worker[w].offset \in 1..Len(log) /\ Current(w) \in Message
  BY <1>2, CurrentIsMessage DEF IInv
<1>4. Sound(Current(w), version, exists)
  BY <1>3 DEF IInv, MessagesInv, Current
<1>5. UNCHANGED <<exists, seen, cache, outbox, log, fetched>> /\ disturbed \subseteq disturbed'
  BY DEF Work, Check, Write, Retry, GiveUp, Commit, cluster, topic
<1>6. /\ \A y \in Workers : y # w => worker'[y] = worker[y]
      /\ worker'[w].phase # "idle" => worker'[w].offset = worker[w].offset
      /\ worker'[w].phase \in {"idle", "check", "write", "commit"}
  <2>1. CASE Check(w)
    BY <1>1, <2>1 DEF Check, Worker
  <2>2. CASE Write(w)
    BY <1>1, <2>2 DEF Write, Worker
  <2>3. CASE Retry(w)
    BY <1>1, <2>3 DEF Retry, Worker
  <2>4. CASE GiveUp(w)
    BY <1>1, <2>4 DEF GiveUp, Worker, IdleWorker
  <2>5. CASE Commit(w)
    BY <1>1, <2>5 DEF Commit, IdleWorker
  <2>6. QED
    BY <2>1, <2>2, <2>3, <2>4, <2>5 DEF Work
<1>7. QED
  BY <1>2, <1>3, <1>4, <1>5, <1>6 DEF Current

\* A worker that goes on with a message of u: nothing it may write now but could
\* not write before.
LEMMA FollowsWork ==
  ASSUME IInv, NEW u \in Uids, Handled(u), Follows(u), NEW w \in Workers, Work(w)
  PROVE  Follows(u)'
<1> SUFFICES ASSUME exists[u], u \notin disturbed', seen[u] > 0
             PROVE  Follows(u)'
  BY WorkFacts DEF Follows
<1>1. /\ UNCHANGED <<exists, seen, cache, outbox, log, fetched>>
      /\ worker[w].phase # "idle" /\ Current(w) \in Message
      /\ Sound(Current(w), version, exists)
      /\ worker'[w].phase # "idle" => Current(w)' = Current(w)
  BY WorkFacts
<1>2. \A y \in Workers : y # w => /\ WorksOn(y, u)' <=> WorksOn(y, u)
                                  /\ MayWrite(y)' <=> MayWrite(y)
                                  /\ Current(y)' = Current(y)
                                  /\ worker'[y] = worker[y]
  BY WorkFacts DEF WorksOn, Current, MayWrite
<1>3. /\ WorksOn(w, u) <=> Current(w).uid = u
      /\ WorksOn(w, u)' <=> WorksOn(w, u) /\ worker'[w].phase # "idle"
  BY <1>1 DEF WorksOn
<1>4. WorksOn(w, u) => Current(w).type \in {"Added", "Updated"} /\ Current(w).version > 0
  BY <1>1, <1>3, ConstantsAssumption DEF Sound, Message, Versions
<1>5. u \notin disturbed
  BY WorkFacts
<1>6. \A n : LateAdded(n, u)' <=> LateAdded(n, u)
  BY <1>1 DEF LateAdded
<1>7. OutboxClean(u)' <=> OutboxClean(u)
  BY <1>1, <1>6 DEF OutboxClean, LateAdded
<1>8. (InOutbox(u) => InOutbox(u)') /\ (InLog(u) => InLog(u)')
  BY <1>1, <1>6, <1>7 DEF InOutbox, InLog, LateAdded
<1>9. Threatens(w, u)' => Threatens(w, u)
  <2>1. SUFFICES ASSUME WorksOn(w, u), worker'[w].phase # "idle", MayWrite(w)',
                        Current(w).version # seen[u]
                 PROVE  MayWrite(w)
    BY <1>1, <1>3 DEF Threatens
  <2>2. CASE Check(w)
    <3>1. worker[w].phase = "check" /\ worker'[w].phase = "write"
      BY <1>1, <2>1, <2>2 DEF Check, MayWrite, IInv, TypeOK, Worker
    <3>2. ~Skips(Current(w))
      BY <1>4, <2>1, <2>2, <3>1 DEF Check, IInv, TypeOK, Worker
    <3>3. cache[u] \in {0, seen[u]}
      BY DEF Handled
    <3>4. Current(w).type # "Updated"
      BY <1>3, <1>4, <2>1, <3>2, <3>3 DEF Skips
    <3>5. QED
      BY <1>4, <2>1, <3>1, <3>4 DEF MayWrite
  <2>3. CASE Retry(w)
    BY <2>3 DEF Retry, MayWrite
  <2>4. CASE Write(w) \/ GiveUp(w)
    BY <2>4 DEF Write, GiveUp, MayWrite
  <2>5. CASE Commit(w)
    BY <2>1, <2>5 DEF Commit, IdleWorker, IInv, TypeOK
  <2>6. QED
    BY <2>2, <2>3, <2>4, <2>5 DEF Work
<1>10. NoThreat(u) => NoThreat(u)'
  <2>1. SUFFICES ASSUME NoThreat(u) PROVE NoThreat(u)'
    OBVIOUS
  <2>2. \A y \in Workers : ~Threatens(y, u)'
    <3>1. TAKE y \in Workers
    <3>2. CASE y = w
      BY <1>9, <2>1, <3>2 DEF NoThreat
    <3>3. CASE y # w
      BY <1>1, <1>2, <2>1, <3>3 DEF NoThreat, Threatens
    <3>4. QED
      BY <3>2, <3>3
  <2>3. QED
    BY <1>1, <1>6, <1>7, <2>1, <2>2 DEF NoThreat
<1>11. ASSUME NoThreat(u), Write(w), Current(w).uid = u PROVE Written(u)'
  <2>1. Current(w).version = seen[u]
    BY <1>3, <1>11 DEF NoThreat, Threatens, MayWrite, Write
  <2>2. graph'[u] = seen[u] /\ ~deleted'[u]
    BY <1>3, <1>4, <1>11, <2>1 DEF Write, IInv, TypeOK
  <2>3. QED
    BY <1>1, <1>10, <1>11, <2>2 DEF Written
<1>12. ~(Write(w) /\ Current(w).uid = u) => graph'[u] = graph[u] /\ deleted'[u] = deleted[u]
  BY DEF Work, Check, Write, Retry, GiveUp, Commit, vertices, IInv, TypeOK
<1>13. Written(u) => Written(u)'
  BY <1>1, <1>10, <1>11, <1>12 DEF Written
<1>14. ASSUME WithWorker(u), cache[u] = seen[u] PROVE WithWorker(u)' \/ Written(u)'
  <2>1. NoThreat(u) /\ NoThreat(u)'
    BY <1>10, <1>14 DEF WithWorker
  <2>2. PICK y \in Workers : /\ WorksOn(y, u) /\ worker[y].phase \in {"check", "write"}
                             /\ Current(y).version = seen[u]
    BY <1>14 DEF WithWorker
  <2>3. CASE y # w
    BY <1>1, <1>2, <2>1, <2>2, <2>3 DEF WithWorker
  <2>4. CASE y = w
    <3>1. CASE Check(w)
      <4>1. ~Skips(Current(w)) /\ Current(w).type # "Deleted"
        BY <1>3, <1>4, <1>14, <2>2, <2>4 DEF Skips
      <4>2. worker'[w].phase = "write"
        BY <3>1, <4>1 DEF Check, IInv, TypeOK, Worker
      <4>3. QED
        BY <1>1, <1>3, <2>1, <2>2, <2>4, <4>2 DEF WithWorker
    <3>2. CASE Write(w)
      BY <1>3, <1>11, <2>1, <2>2, <2>4, <3>2
    <3>3. CASE Retry(w)
      <4>1. worker'[w].phase = "check"
        BY <3>3 DEF Retry, IInv, TypeOK, Worker
      <4>2. QED
        BY <1>1, <1>3, <2>1, <2>2, <2>4, <4>1 DEF WithWorker
    <3>4. CASE GiveUp(w)
      BY <1>3, <2>2, <2>4, <3>4 DEF GiveUp
    <3>5. CASE Commit(w)
      BY <2>2, <2>4, <3>5 DEF Commit
    <3>6. QED
      BY <3>1, <3>2, <3>3, <3>4, <3>5 DEF Work
  <2>5. QED
    BY <2>3, <2>4
<1>15. QED
  BY <1>1, <1>5, <1>8, <1>13, <1>14 DEF Follows

LEMMA FollowsStep ==
  ASSUME IInv, \A y \in Uids : Handled(y), [Next]_vars, NEW u \in Uids, Follows(u)
  PROVE  Follows(u)'
<1>1. /\ version \in [Uids -> 0..MaxChanges] /\ exists \in [Uids -> BOOLEAN]
      /\ seen \in [Uids -> Versions \cup {0, Done}] /\ cache \in [Uids -> 0..MaxChanges]
      /\ outbox \in [Uids -> Seq(Message)]
      /\ graph \in [Uids -> 0..MaxChanges] /\ deleted \in [Uids -> BOOLEAN]
      /\ MaxChanges \in Nat
  BY ConstantsAssumption DEF IInv, TypeOK
<1>2. Gone(u) => ~exists'[u]
  BY GoneForGood DEF Gone
<1>3. CASE UNCHANGED vars
  BY <1>3, FollowsFrame DEF vars, cluster, topic, vertices
<1>4. ASSUME NEW x \in Uids, ClusterWrite(x) PROVE Follows(u)'
  <2>1. exists'[u] => exists[u] \/ seen[u] = 0
    <3>1. CASE x # u
      BY <1>1, <1>4, <3>1 DEF ClusterWrite
    <3>2. CASE x = u
      BY <1>1, <1>4, <3>2 DEF ClusterWrite, Handled, Created
    <3>3. QED
      BY <3>1, <3>2
  <2>2. QED
    BY <1>4, <2>1, FollowsFrame DEF ClusterWrite, topic, vertices
<1>5. ASSUME NEW x \in Uids, ClusterDelete(x) PROVE Follows(u)'
  <2>1. exists'[u] => exists[u]
    BY <1>1, <1>5 DEF ClusterDelete
  <2>2. QED
    BY <1>5, <2>1, FollowsFrame DEF ClusterDelete, topic, vertices
<1>6. ASSUME NEW x \in Uids, x # u,
             \/ \E v \in Versions : HandleChange(x, v)
             \/ HandleDelete(x) \/ HandleMissedDelete(x) \/ Evict(x)
             \/ \E i \in DOMAIN outbox[x] : PublishFails(x, i)
      PROVE  Follows(u)'
  <2>1. /\ UNCHANGED <<exists, log, fetched, worker, graph, deleted>>
        /\ seen'[u] = seen[u] /\ cache'[u] = cache[u] /\ outbox'[u] = outbox[u]
        /\ u \in disturbed => u \in disturbed'
    BY <1>1, <1>6 DEF HandleChange, HandleDelete, HandleMissedDelete, Evict, PublishFails,
       cluster, topic, vertices
  <2>2. QED
    BY <2>1, FollowsFrame
<1>7. CASE HandleDelete(u) \/ HandleMissedDelete(u)
  BY <1>2, <1>7 DEF HandleDelete, HandleMissedDelete, Follows
<1>8. ASSUME NEW i \in DOMAIN outbox[u], PublishFails(u, i) PROVE Follows(u)'
  BY <1>8 DEF PublishFails, Follows
<1>9. CASE Restart
  BY <1>9 DEF Restart, Follows, cluster, Done
<1>10. ASSUME NEW s \in Syncs, SyncStep(s) PROVE Follows(u)'
  <2>1. UNCHANGED <<exists, seen, cache, outbox, log, fetched, worker, disturbed>>
    BY <1>10 DEF SyncStep, SyncUnchanged, Scan, List, Abort, Mark, MarkFails, Marked, Expire,
       cluster, topic
  <2>2. exists[u] => graph'[u] = graph[u] /\ deleted'[u] = deleted[u]
    <3>1. SUFFICES ASSUME exists[u] PROVE graph'[u] = graph[u] /\ deleted'[u] = deleted[u]
      OBVIOUS
    <3>2. ASSUME NEW x \in Uids, Mark(s, x) PROVE graph'[u] = graph[u] /\ deleted'[u] = deleted[u]
      <4>1. x # u
        BY <3>1, <3>2 DEF Mark, IInv, SyncsInv, Gone
      <4>2. QED
        BY <1>1, <3>2, <4>1 DEF Mark
    <3>3. CASE Expire(s)
      <4>1. PICK removed \in SUBSET sync[s].uids :
              /\ graph' = [y \in Uids |-> IF y \in removed THEN 0 ELSE graph[y]]
              /\ deleted' = [y \in Uids |-> deleted[y] /\ y \notin removed]
        BY <3>3 DEF Expire
      <4>2. u \notin removed
        BY <3>1, <3>3, <4>1 DEF Expire, IInv, SyncsInv, Gone
      <4>3. QED
        BY <1>1, <4>1, <4>2
    <3>4. CASE \/ Scan(s) \/ (\E answered \in Answers : List(s, answered)) \/ Abort(s)
               \/ (\E x \in Uids : MarkFails(s, x)) \/ Marked(s)
      BY <3>4 DEF Scan, List, Abort, MarkFails, Marked, vertices
    <3>5. QED
      BY <1>10, <3>2, <3>3, <3>4 DEF SyncStep
  <2>3. QED
    BY <2>1, <2>2, FollowsFrame
<1>11. QED
  BY <1>3, <1>4, <1>5, <1>6, <1>7, <1>8, <1>9, <1>10, FollowsChange, FollowsEvict,
     FollowsPublish, FollowsTake, FollowsWork DEF Next

-----------------------------------------------------------------------------
\* A tombstone stays one until its vertex is removed.
LEMMA TombstoneStays ==
  ASSUME IInv, NEW u \in Uids, NEW s \in Syncs, SyncStep(s), graph[u] = 0 \/ deleted[u]
  PROVE  graph'[u] = 0 \/ deleted'[u]
<1>1. graph \in [Uids -> 0..MaxChanges] /\ deleted \in [Uids -> BOOLEAN]
  BY DEF IInv, TypeOK
<1>2. ASSUME NEW x \in Uids, Mark(s, x) PROVE graph'[u] = 0 \/ deleted'[u]
  BY <1>1, <1>2 DEF Mark
<1>3. CASE Expire(s)
  <2>1. PICK removed \in SUBSET sync[s].uids :
          /\ graph' = [y \in Uids |-> IF y \in removed THEN 0 ELSE graph[y]]
          /\ deleted' = [y \in Uids |-> deleted[y] /\ y \notin removed]
    BY <1>3 DEF Expire
  <2>2. QED
    BY <1>1, <2>1
<1>4. CASE \/ Scan(s) \/ (\E answered \in Answers : List(s, answered)) \/ Abort(s)
           \/ (\E x \in Uids : MarkFails(s, x)) \/ Marked(s)
  BY <1>4 DEF Scan, List, Abort, MarkFails, Marked, vertices
<1>5. QED
  BY <1>2, <1>3, <1>4 DEF SyncStep

\* Steps of others.
LEMMA BuriedFrame ==
  ASSUME NEW u \in Uids, Buried(u), UNCHANGED <<worker, fetched>>,
         \A w \in Workers : WorksOn(w, u) => Current(w)' = Current(w),
         \A w \in Workers : WorksOn(w, u)' => WorksOn(w, u),
         graph[u] = 0 \/ deleted[u] => graph'[u] = 0 \/ deleted'[u]
  PROVE  Buried(u)'
<1>1. ASSUME NEW w \in Workers, WorksOn(w, u)
      PROVE  WorksOn(w, u)' /\ (MayWrite(w)' <=> MayWrite(w))
  BY <1>1 DEF WorksOn, MayWrite
<1>2. QED
  BY <1>1 DEF Buried

\* A worker's step after the deletion: only deletions may still be written.
LEMMA BuriedWork ==
  ASSUME IInv, NEW u \in Uids, Handled(u), Buried(u), NEW w \in Workers, Work(w),
         u \notin disturbed', cache[u] = 0
  PROVE  Buried(u)'
<1>1. /\ worker[w].phase # "idle" /\ Current(w) \in Message
      /\ worker'[w].phase # "idle" => Current(w)' = Current(w)
      /\ UNCHANGED <<cache, log>>
  BY WorkFacts
<1>2. \A y \in Workers : y # w => /\ WorksOn(y, u)' <=> WorksOn(y, u)
                                  /\ MayWrite(y)' <=> MayWrite(y)
                                  /\ Current(y)' = Current(y)
                                  /\ worker'[y] = worker[y]
  BY WorkFacts DEF WorksOn, Current, MayWrite
<1>3. /\ WorksOn(w, u) <=> Current(w).uid = u
      /\ WorksOn(w, u)' <=> WorksOn(w, u) /\ worker'[w].phase # "idle"
  BY <1>1 DEF WorksOn
<1>4. Current(w).type \in {"Added", "Updated", "Deleted"} /\ Current(w).version > 0
  BY <1>1, ConstantsAssumption DEF Message, Versions
<1>5. ASSUME WorksOn(w, u), worker'[w].phase # "idle", MayWrite(w)',
             Current(w).type # "Deleted"
      PROVE  MayWrite(w)
  <2>1. CASE Check(w)
    <3>1. worker[w].phase = "check" /\ worker'[w].phase = "write"
      BY <1>1, <1>5, <2>1 DEF Check, MayWrite, IInv, TypeOK, Worker
    <3>2. ~Skips(Current(w))
      BY <1>5, <2>1, <3>1 DEF Check, IInv, TypeOK, Worker
    <3>3. Current(w).type # "Updated"
      BY <1>3, <1>4, <1>5, <3>2 DEF Skips
    <3>4. QED
      BY <1>4, <1>5, <3>1, <3>3 DEF MayWrite
  <2>2. CASE Retry(w)
    BY <2>2 DEF Retry, MayWrite
  <2>3. CASE Write(w) \/ GiveUp(w)
    BY <2>3 DEF Write, GiveUp, MayWrite
  <2>4. CASE Commit(w)
    BY <1>5, <2>4 DEF Commit, IdleWorker, IInv, TypeOK
  <2>5. QED
    BY <2>1, <2>2, <2>3, <2>4 DEF Work
<1>6. \A y \in Workers : WorksOn(y, u)' /\ MayWrite(y)' => Current(y)'.type = "Deleted"
  <2>1. TAKE y \in Workers
  <2>2. CASE y = w
    BY <1>1, <1>3, <1>5, <2>2 DEF Buried
  <2>3. CASE y # w
    BY <1>2, <2>3 DEF Buried
  <2>4. QED
    BY <2>2, <2>3
<1>7. ASSUME Write(w), Current(w).uid = u PROVE deleted'[u]
  <2>1. Current(w).type = "Deleted"
    BY <1>3, <1>7 DEF Buried, MayWrite, Write
  <2>2. QED
    BY <1>7, <2>1 DEF Write, IInv, TypeOK
<1>8. ASSUME graph[u] = 0 \/ deleted[u] PROVE graph'[u] = 0 \/ deleted'[u]
  <2>1. ~(Write(w) /\ Current(w).uid = u) => graph'[u] = graph[u] /\ deleted'[u] = deleted[u]
    BY DEF Work, Check, Write, Retry, GiveUp, Commit, vertices, IInv, TypeOK
  <2>2. QED
    BY <1>7, <1>8, <2>1
<1>9. ASSUME NEW y \in Workers, WorksOn(y, u), worker[y].phase \in {"check", "write"},
             Current(y).type = "Deleted"
      PROVE  \/ graph'[u] = 0 \/ deleted'[u]
             \/ \E z \in Workers : /\ WorksOn(z, u)' /\ worker'[z].phase \in {"check", "write"}
                                   /\ Current(z)'.type = "Deleted"
  <2>1. CASE y # w
    BY <1>2, <1>9, <2>1
  <2>2. CASE y = w
    <3>1. CASE Check(w)
      <4>1. CASE worker'[w].phase = "write"
        BY <1>1, <1>3, <1>9, <2>2, <4>1
      <4>2. CASE worker'[w].phase # "write"
        <5>1. Skips(Current(w))
          BY <3>1, <4>2, <1>1 DEF Check, IInv, TypeOK, Worker
        <5>2. deleted[u]
          BY <1>3, <1>9, <2>2, <5>1 DEF Skips
        <5>3. QED
          BY <1>8, <5>2
      <4>3. QED
        BY <4>1, <4>2
    <3>2. CASE Write(w)
      BY <1>3, <1>7, <1>9, <2>2, <3>2
    <3>3. CASE Retry(w)
      <4>1. worker'[w].phase = "check"
        BY <3>3 DEF Retry, IInv, TypeOK, Worker
      <4>2. QED
        BY <1>1, <1>3, <1>9, <2>2, <4>1
    <3>4. CASE GiveUp(w)
      BY <1>3, <1>9, <2>2, <3>4 DEF GiveUp
    <3>5. CASE Commit(w)
      BY <1>9, <2>2, <3>5 DEF Commit
    <3>6. QED
      BY <3>1, <3>2, <3>3, <3>4, <3>5 DEF Work
  <2>3. QED
    BY <2>1, <2>2
<1>10. \/ graph'[u] = 0 \/ deleted'[u]
       \/ \E z \in Workers : /\ WorksOn(z, u)' /\ worker'[z].phase \in {"check", "write"}
                             /\ Current(z)'.type = "Deleted"
  BY <1>8, <1>9 DEF Buried
<1>11. QED
  BY <1>6, <1>10 DEF Buried

\* A topic that ends with the deletion of u leaves a tombstone.
LEMMA BuriedStep ==
  ASSUME IInv, CatchUpInv, [Next]_vars, NEW u \in Uids \ disturbed',
         NEW p \in 1..fetched', Ended(u, p)'
  PROVE  Buried(u)'
<1>1. /\ log \in Seq(Message) /\ fetched \in 0..Len(log) /\ Len(log) \in Nat /\ marked <= fetched
      /\ outbox \in [Uids -> Seq(Message)] /\ graph \in [Uids -> 0..MaxChanges]
      /\ deleted \in [Uids -> BOOLEAN] /\ worker \in [Workers -> Worker]
  BY DEF IInv, TypeOK, CatchUpInv
<1>2. Handled(u) /\ Follows(u)
  BY DEF CatchUpInv
<1>3. ASSUME log' = log, p \in 1..fetched, u \notin disturbed
      PROVE  /\ Buried(u) /\ cache[u] = 0 /\ seen[u] = Done /\ ~exists[u]
             /\ Ended(u, p)
  <2>1. Ended(u, p)
    BY <1>3 DEF Ended
  <2>2. p \in 1..Len(log)
    BY <1>1, <1>3
  <2>3. QED
    BY <1>2, <1>3, <2>1, <2>2 DEF CatchUpInv, Handled, Ended, IInv, MessagesInv, Sound
<1>4. ASSUME UNCHANGED <<log, fetched, worker>>, u \notin disturbed,
             graph[u] = 0 \/ deleted[u] => graph'[u] = 0 \/ deleted'[u]
      PROVE  Buried(u)'
  <2>1. Buried(u)
    BY <1>3, <1>4
  <2>2. QED
    BY <1>4, <2>1, BuriedFrame DEF WorksOn, Current
<1>5. CASE UNCHANGED vars
  BY <1>4, <1>5 DEF vars, topic, vertices
<1>6. ASSUME NEW x \in Uids,
             \/ ClusterWrite(x) \/ ClusterDelete(x)
             \/ \E v \in Versions : HandleChange(x, v)
             \/ HandleDelete(x) \/ HandleMissedDelete(x) \/ Evict(x)
             \/ \E i \in DOMAIN outbox[x] : PublishFails(x, i)
      PROVE  Buried(u)'
  <2>1. UNCHANGED <<log, fetched, worker, graph, deleted>> /\ u \notin disturbed
    BY <1>6 DEF ClusterWrite, ClusterDelete, HandleChange, HandleDelete, HandleMissedDelete,
       Evict, PublishFails, topic, vertices
  <2>2. QED
    BY <1>4, <2>1
<1>7. ASSUME NEW x \in Uids, NEW i \in DOMAIN outbox[x], Publish(x, i) PROVE Buried(u)'
  <2>1. /\ UNCHANGED <<fetched, worker, graph, deleted>> /\ log' = Append(log, outbox[x][i])
        /\ u \notin disturbed
    BY <1>7 DEF Publish, vertices
  <2>2. outbox[x][i] \in Message
    BY <1>1, <1>7
  <2>3. Len(log') = Len(log) + 1 /\ \A k \in 1..Len(log) : log'[k] = log[k]
    BY <1>1, <2>1, <2>2
  <2>4. p \in 1..fetched /\ p \in 1..Len(log)
    BY <1>1, <2>1
  <2>5. Ended(u, p)
    <3>1. log[p].uid = u /\ log[p].type = "Deleted"
      BY <2>3, <2>4 DEF Ended
    <3>2. ASSUME NEW q \in (p + 1)..Len(log) PROVE log[q].uid # u
      <4>1. q \in 1..Len(log) /\ q \in (p + 1)..Len(log')
        BY <1>1, <2>3, <2>4
      <4>2. QED
        BY <2>3, <4>1 DEF Ended
    <3>3. QED
      BY <3>1, <3>2 DEF Ended
  <2>6. Buried(u)
    BY <2>1, <2>4, <2>5 DEF CatchUpInv
  <2>7. \A w \in Workers : worker[w].phase # "idle" => Current(w)' = Current(w)
    <3>1. TAKE w \in Workers
    <3>2. worker[w].phase # "idle" => worker[w].offset \in 1..Len(log)
      BY CurrentIsMessage DEF IInv
    <3>3. QED
      BY <2>1, <2>3, <3>2 DEF Current
  <2>8. QED
    BY <2>1, <2>6, <2>7, BuriedFrame DEF WorksOn
<1>8. ASSUME NEW w \in Workers, Take(w) PROVE Buried(u)'
  <2> DEFINE m == log[fetched + 1]
  <2>1. /\ UNCHANGED <<log, graph, deleted>> /\ u \notin disturbed
        /\ fetched' = fetched + 1 /\ worker[w].phase = "idle"
        /\ Racing(m.uid) => m.uid \in disturbed'
    BY <1>8 DEF Take, vertices
  <2>2. /\ worker'[w] = [phase |-> "check", offset |-> fetched + 1, tries |-> 0]
        /\ \A y \in Workers : y # w => worker'[y] = worker[y]
    BY <1>1, <1>8 DEF Take
  <2>3. /\ WorksOn(w, u)' <=> m.uid = u
        /\ Current(w)' = m /\ worker'[w].phase = "check"
    BY <2>1, <2>2 DEF WorksOn, Current
  <2>4. \A y \in Workers : y # w => /\ WorksOn(y, u)' <=> WorksOn(y, u)
                                    /\ MayWrite(y)' <=> MayWrite(y)
                                    /\ Current(y)' = Current(y)
                                    /\ worker'[y] = worker[y]
    BY <2>1, <2>2 DEF WorksOn, Current, MayWrite
  <2>5. ~WorksOn(w, u)
    BY <2>1 DEF WorksOn
  <2>6. CASE p = fetched + 1
    <3>1. m.uid = u /\ m.type = "Deleted"
      BY <2>1, <2>6 DEF Ended
    <3>2. \A y \in Workers : ~(WorksOn(y, u) /\ MayWrite(y))
      BY <2>1, <3>1 DEF Racing, MayWrite
    <3> HIDE DEF m
    <3>3. QED
      BY <2>3, <2>4, <3>1, <3>2 DEF Buried
  <2>7. CASE p # fetched + 1
    <3>1. p \in 1..fetched /\ fetched + 1 \in (p + 1)..Len(log)
      BY <1>1, <1>8, <2>1, <2>7 DEF Take
    <3>2. Buried(u) /\ m.uid # u
      BY <1>3, <2>1, <3>1 DEF Ended
    <3> HIDE DEF m
    <3>3. \A y \in Workers : WorksOn(y, u) => y # w
      BY <2>5
    <3>4. \A y \in Workers : WorksOn(y, u)' => y # w
      BY <2>3, <3>2
    <3>5. QED
      BY <2>1, <2>4, <3>2, <3>3, <3>4 DEF Buried
  <2>8. QED
    BY <2>6, <2>7
<1>9. ASSUME NEW w \in Workers, Work(w) PROVE Buried(u)'
  <2>1. UNCHANGED <<log, fetched>> /\ u \notin disturbed
    BY <1>9, WorkFacts
  <2>2. Buried(u) /\ cache[u] = 0
    BY <1>3, <2>1
  <2>3. QED
    BY <1>2, <1>9, <2>2, BuriedWork
<1>10. ASSUME NEW s \in Syncs, SyncStep(s) PROVE Buried(u)'
  <2>1. UNCHANGED <<log, fetched, worker, disturbed>>
    BY <1>10 DEF SyncStep, SyncUnchanged, Scan, List, Abort, Mark, MarkFails, Marked, Expire,
       topic
  <2>2. QED
    BY <1>4, <1>10, <2>1, TombstoneStays
<1>11. CASE Restart
  <2>1. PICK start \in committed..marked :
          /\ fetched' = start
          /\ disturbed' = {y \in Uids : ~exists[y]} \cap
               (disturbed \cup {y \in Uids : \E w \in Workers :
                                  WorksOn(w, y) /\ worker[w].offset <= start})
    BY <1>11 DEF Restart
  <2>2. UNCHANGED <<log, exists, graph, deleted>>
        /\ \A w \in Workers : worker'[w].phase = "idle"
    BY <1>11 DEF Restart, cluster, vertices, IdleWorker
  <2>3. committed \in Nat /\ marked \in Nat
    BY DEF IInv, TypeOK
  <2>4. p \in 1..fetched /\ p <= start /\ p \in 1..Len(log)
    BY <1>1, <2>1, <2>3
  <2>5. ~exists[u]
    <3>1. log[p].uid = u /\ log[p].type = "Deleted"
      BY <2>2 DEF Ended
    <3>2. QED
      BY <2>4, <3>1 DEF IInv, MessagesInv, Sound
  <2>6. u \notin disturbed /\ \A w \in Workers : WorksOn(w, u) => ~(worker[w].offset <= start)
    BY <2>1, <2>5
  <2>7. Buried(u) /\ Ended(u, p)
    BY <1>3, <2>2, <2>4, <2>6
  <2>8. \A w \in Workers : ~WorksOn(w, u)
    <3>1. SUFFICES ASSUME NEW w \in Workers, WorksOn(w, u) PROVE FALSE
      OBVIOUS
    <3>2. worker[w].offset \in 1..Len(log) /\ log[worker[w].offset].uid = u
      BY <3>1, CurrentIsMessage DEF IInv, WorksOn, Current
    <3>3. ~(worker[w].offset \in (p + 1)..Len(log))
      BY <2>7, <3>2 DEF Ended
    <3>4. worker[w].offset <= p /\ p \in Nat /\ start \in Nat
      BY <1>1, <2>3, <2>4, <3>2, <3>3
    <3>5. QED
      BY <2>4, <2>6, <3>1, <3>2, <3>4
  <2>9. QED
    BY <2>2, <2>7, <2>8 DEF Buried, WorksOn
<1>12. QED
  BY <1>5, <1>6, <1>7, <1>8, <1>9, <1>10, <1>11 DEF Next

\* Nothing is marked before it was taken.
LEMMA MarkedStep ==
  ASSUME IInv, marked <= fetched, [Next]_vars
  PROVE  marked' <= fetched'
<1>1. marked \in Nat /\ fetched \in Nat /\ committed \in Nat
  BY DEF IInv, TypeOK
<1>2. ASSUME NEW w \in Workers, Take(w) PROVE marked' <= fetched'
  BY <1>1, <1>2 DEF Take
<1>3. ASSUME NEW w \in Workers, Commit(w) PROVE marked' <= fetched'
  <2>1. worker[w].offset \in 1..fetched
    BY <1>3 DEF Commit, IInv, TypeOK
  <2>2. QED
    BY <1>1, <1>3, <2>1 DEF Commit
<1>4. CASE Restart
  BY <1>1, <1>4 DEF Restart
<1>5. ASSUME NEW w \in Workers, Check(w) \/ Write(w) \/ Retry(w) \/ GiveUp(w)
      PROVE  UNCHANGED <<marked, fetched>>
  BY <1>5 DEF Check, Write, Retry, GiveUp, topic
<1>6. ASSUME NEW s \in Syncs, SyncStep(s) PROVE UNCHANGED <<marked, fetched>>
  BY <1>6 DEF SyncStep, SyncUnchanged, Scan, List, Abort, Mark, MarkFails, Marked, Expire, topic
<1>7. ASSUME NEW u \in Uids,
             \/ ClusterWrite(u) \/ ClusterDelete(u)
             \/ \E v \in Versions : HandleChange(u, v)
             \/ HandleDelete(u) \/ HandleMissedDelete(u) \/ Evict(u)
             \/ \E i \in DOMAIN outbox[u] : Publish(u, i) \/ PublishFails(u, i)
      PROVE  UNCHANGED <<marked, fetched>>
  BY <1>7 DEF ClusterWrite, ClusterDelete, HandleChange, HandleDelete, HandleMissedDelete,
     Evict, Publish, PublishFails, topic
<1>8. CASE UNCHANGED vars
  BY <1>8 DEF vars, topic
<1>9. QED
  BY <1>1, <1>2, <1>3, <1>4, <1>5, <1>6, <1>7, <1>8 DEF Next, Work

LEMMA CatchUpStep == IInv /\ CatchUpInv /\ [Next]_vars => CatchUpInv'
<1> SUFFICES ASSUME IInv, CatchUpInv, [Next]_vars PROVE CatchUpInv'
  OBVIOUS
<1>1. marked' <= fetched'
  BY MarkedStep DEF CatchUpInv
<1>2. \A u \in Uids : Handled(u)' /\ Follows(u)'
  BY HandledStep, FollowsStep DEF CatchUpInv
<1>3. \A u \in Uids \ disturbed' : \A p \in 1..fetched' : Ended(u, p)' => Buried(u)'
  BY BuriedStep
<1>4. QED
  BY <1>1, <1>2, <1>3 DEF CatchUpInv

LEMMA CatchUpInit == Init => CatchUpInv
<1>1. ASSUME Init, NEW u \in Uids PROVE Handled(u) /\ Follows(u)
  BY <1>1 DEF Init, Handled, Follows, Created
<1>2. QED
  BY <1>1 DEF Init, CatchUpInv

\* The naturals are well-founded, so a bounded set of them has a greatest element.
LEMMA BoundedHasMax ==
  ASSUME NEW S, S \subseteq Nat, S # {}, NEW b \in Nat, \A y \in S : y <= b
  PROVE  \E x \in S : \A y \in S : x >= y
<1> DEFINE R == {ss \in Nat \X Nat : ss[1] < ss[2]}
           Bounds == {n \in Nat : \A y \in S : y <= n}
<1>1. IsWellFoundedOn(R, Nat)
  BY NatLessThanWellFounded DEF OpToRel
<1>2. Bounds \subseteq Nat /\ Bounds # {}
  OBVIOUS
<1>3. PICK x \in Bounds : \A y \in Bounds : <<y, x>> \notin R
  <2> HIDE DEF R, Bounds
  <2>1. QED
    BY <1>1, <1>2, WFMin
<1>4. \A y \in Bounds : ~(y < x)
  BY <1>3
<1>5. x \in S
  <2>1. SUFFICES ASSUME x \notin S PROVE FALSE
    OBVIOUS
  <2>2. PICK y \in S : TRUE
    OBVIOUS
  <2>3. \A z \in S : z \in Nat /\ z <= x /\ z # x
    BY <2>1
  <2>4. x \in Nat /\ x - 1 \in Nat
    BY <2>2, <2>3
  <2>5. x - 1 \in Bounds
    BY <2>3, <2>4
  <2>6. QED
    BY <1>4, <2>4, <2>5
<1>6. QED
  BY <1>5

\* The index of the last message of u, if there is one.
LEMMA LastMessage ==
  ASSUME IInv, NEW u \in Uids,
         NEW p, p = SelectLastInSeq(log, LAMBDA m : m.uid = u), p > 0
  PROVE  p \in 1..Len(log) /\ log[p].uid = u /\ \A q \in (p + 1)..Len(log) : log[q].uid # u
<1> DEFINE I == {i \in 1..Len(log) : log[i].uid = u}
<1>1. p = IF I # {} THEN Max(I) ELSE 0
  BY DEF SelectLastInSeq
<1>2. I # {} /\ p = Max(I)
  BY <1>1
<1>3. Len(log) \in Nat
  BY DEF IInv, TypeOK
<1>4. \E x \in I : \A y \in I : x >= y
  <2>1. I \subseteq Nat /\ \A y \in I : y <= Len(log)
    BY <1>3
  <2> HIDE DEF I
  <2>2. QED
    BY <1>2, <1>3, <2>1, BoundedHasMax
<1>5. Max(I) \in I /\ \A y \in I : Max(I) >= y
  <2> HIDE DEF I
  <2>1. QED
    BY <1>4 DEF Max
<1>6. p \in I /\ \A y \in I : p >= y
  <2> HIDE DEF I
  <2>1. QED
    BY <1>2, <1>5
<1>7. p \in 1..Len(log) /\ log[p].uid = u
  BY <1>6
<1>8. ASSUME NEW q \in (p + 1)..Len(log) PROVE log[q].uid # u
  <2>1. q \in 1..Len(log) /\ ~(p >= q)
    BY <1>3, <1>7
  <2>2. q \notin I
    BY <1>6, <2>1
  <2>3. QED
    BY <2>1, <2>2
<1>9. QED
  BY <1>7, <1>8

\* When nothing of a resource is on its way and no accident befell its messages,
\* the graph has its newest version, or its tombstone if the topic ends with its
\* deletion, if every kind is listed.
THEOREM GraphAlwaysCatchesUp ==
  ASSUME ~PartialLists
  PROVE  Spec => []GraphCatchesUp
<1>1. IInv /\ CatchUpInv => GraphCatchesUp
  <2> SUFFICES ASSUME IInv, CatchUpInv, NEW u \in Uids, Quiet(u), u \notin disturbed
               PROVE  /\ exists[u] => graph[u] = version[u] /\ ~deleted[u]
                      /\ LET last == SelectLastInSeq(log, LAMBDA m : m.uid = u) IN
                         last > 0 /\ log[last].type = "Deleted" => graph[u] = 0 \/ deleted[u]
    BY DEF GraphCatchesUp
  <2>1. /\ Len(outbox[u]) = 0 /\ (\A i \in (fetched + 1)..Len(log) : log[i].uid # u)
        /\ (\A w \in Workers : ~WorksOn(w, u)) /\ (exists[u] => seen[u] = version[u])
    BY DEF Quiet
  <2>2. ASSUME exists[u] PROVE graph[u] = version[u] /\ ~deleted[u]
    <3>1. version[u] > 0
      BY <2>2 DEF IInv, VerticesInv, Created
    <3>2. ~InOutbox(u) /\ ~InLog(u) /\ ~WithWorker(u)
      BY <2>1 DEF InOutbox, InLog, WithWorker
    <3>3. Written(u)
      BY <2>1, <2>2, <3>1, <3>2 DEF CatchUpInv, Follows
    <3>4. QED
      BY <2>1, <2>2, <3>3 DEF Written
  <2>3. ASSUME NEW p, p = SelectLastInSeq(log, LAMBDA m : m.uid = u), p > 0,
               log[p].type = "Deleted"
        PROVE  graph[u] = 0 \/ deleted[u]
    <3>1. /\ p \in 1..Len(log) /\ log[p].uid = u
          /\ \A q \in (p + 1)..Len(log) : log[q].uid # u
      BY <2>3, LastMessage
    <3>2. p \in 1..fetched
      <4>1. fetched \in 0..Len(log) /\ Len(log) \in Nat
        BY DEF IInv, TypeOK
      <4>2. p \notin (fetched + 1)..Len(log)
        BY <2>1, <3>1
      <4>3. QED
        BY <3>1, <4>1, <4>2
    <3>3. Buried(u)
      BY <2>3, <3>1, <3>2 DEF CatchUpInv, Ended
    <3>4. QED
      BY <2>1, <3>3 DEF Buried
  <2>4. QED
    BY <2>2, <2>3
<1>2. Spec => []CatchUpInv
  BY AlwaysIInv, CatchUpInit, CatchUpStep, PTL DEF Spec
<1>3. QED
  BY <1>1, <1>2, AlwaysIInv, PTL

=============================================================================
