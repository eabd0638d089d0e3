------------------------------ MODULE Diagnosis ------------------------------
(* The diagnosis of one alert: the engine that diagnoses it, the collector    *)
(* of its context, the two stores of its result and the engine's counters.    *)
(*                                                                            *)
(* A request is an HTTP handler (run, rerun) or a goroutine of the            *)
(* auto-diagnosis pipeline (auto). A result is the number of the diagnosis    *)
(* that made it: a larger number began later; 0 is no result. What the        *)
(* context says is abstracted to whether its parts saw the UID of the alert's *)
(* resource; the causes found by rules to their confidence in per cent.       *)
EXTENDS Naturals, Sequences, FiniteSets

CONSTANTS Requests,       \* HTTP requests and goroutines that diagnose the alert
          MaxConcurrent,  \* size of the collector's semaphore
          MaxDiagnoses,   \* bound on the diagnoses begun
          MaxFaults,      \* bound on failing calls to a store
          MaxCrashes,     \* bound on restarts
          MaxSyncs,       \* bound on the syncs of the counters
          Class           \* what the rules make of the alert

VARIABLES
  req,      \* each request: pc, kind, n (its diagnosis), uid, parts, context
  redis,    \* the cached result
  pg,       \* the result in PostgreSQL
  jobs,     \* goroutines still to write a result: [to, n]
  began,    \* diagnoses begun
  counter,  \* the engine's counters
  rows,     \* the counters in PostgreSQL
  sync,  \* counters of the sync that are still to be written, with their values
  fallback, \* diagnoses counted twice, for the model and for the rules
  mixed,    \* two results were about to be written at one time
  lost,     \* calls to a store that failed
  unread,   \* the counters could not be loaded by some start
  crashes,
  syncs
vars == <<req, redis, pg, jobs, began, counter, rows, sync, fallback, mixed,
          lost, unread, crashes, syncs>>

Parts == {"topology", "impact", "cases"}
Keys == {"total_diagnoses", "llm_calls", "rule_only_calls"}
Zero == [k \in Keys |-> 0]
NoSync == [values |-> <<>>, writing |-> FALSE]
Idle == [pc |-> "idle", kind |-> "run", n |-> 0, uid |-> FALSE, parts |-> {},
         context |-> {}]

(* The largest confidence of the causes the rules find, in per cent. *)
PodConfidence ==
  [infrastructure |-> 70, memory |-> 90, cpu |-> 85, restart |-> 80, pending |-> 70,
   summary |-> 50, bare |-> 0]
OtherConfidence ==
  [notReady |-> 95, pressure |-> 60, node |-> 50, deployment |-> 70, hotDeployment |-> 85,
   service |-> 60, unknown |-> 30]
RuleConfidence ==
  IF Class \in DOMAIN PodConfidence THEN PodConfidence[Class] ELSE OtherConfidence[Class]

(* The confidence that decides whether the model is asked. *)
Composite(related, critical) ==
  LET score == RuleConfidence
               + (IF related >= 3 THEN 25 ELSE IF related >= 1 THEN 15 ELSE 0)
               + (IF critical THEN 15 ELSE 0)
  IN IF score > 100 THEN 100 ELSE score
Threshold == 80

Init ==
  /\ req = [r \in Requests |-> Idle]
  /\ redis = 0 /\ pg = 0 /\ jobs = {} /\ began = 0
  /\ counter = Zero /\ rows = Zero /\ sync = NoSync
  /\ fallback = 0 /\ mixed = FALSE /\ lost = 0 /\ unread = FALSE /\ crashes = 0
  /\ syncs = 0

Diagnosing(r) == req[r].pc \in {"collect", "decide", "ask", "rules", "store", "persist"}
Writing == {req[r].n : r \in {q \in Requests : Diagnosing(q)}} \cup {j.n : j \in jobs}
Mix == mixed' = (mixed \/ Cardinality(Writing') > 1)
Slots == Cardinality({r \in Requests : req[r].pc = "collect"})

-----------------------------------------------------------------------------
(* Requests arrive. *)
Answer(r) == req' = [req EXCEPT ![r] = Idle]
Fresh(r, kind) == [Idle EXCEPT !.pc = "begin", !.kind = kind, !.uid = (kind = "auto")]

Run(r) == \* a hit in Redis is the answer; a failing Redis counts as a miss
  /\ req[r].pc = "idle" /\ began < MaxDiagnoses
  /\ \/ redis # 0 /\ Answer(r) /\ UNCHANGED lost
     \/ redis = 0 /\ req' = [req EXCEPT ![r] = [Fresh(r, "run") EXCEPT !.pc = "lookup"]]
        /\ UNCHANGED lost
     \/ redis # 0 /\ lost < MaxFaults /\ lost' = lost + 1
        /\ req' = [req EXCEPT ![r] = [Fresh(r, "run") EXCEPT !.pc = "lookup"]]
  /\ UNCHANGED <<redis, pg, jobs, began, counter, rows, sync, fallback, mixed, unread, crashes, syncs>>

Lookup(r) == \* a row in PostgreSQL is the answer, and a goroutine caches it
  /\ req[r].pc = "lookup"
  /\ IF pg # 0
     THEN Answer(r) /\ jobs' = jobs \cup {[to |-> "redis", n |-> pg]}
     ELSE req' = [req EXCEPT ![r].pc = "begin"] /\ UNCHANGED jobs
  /\ UNCHANGED <<redis, pg, began, counter, rows, sync, fallback, lost, unread, crashes, syncs>>
  /\ Mix

Rerun(r) == \* the cached result is removed, if Redis answers; the row stays
  /\ req[r].pc = "idle" /\ began < MaxDiagnoses
  /\ req' = [req EXCEPT ![r] = Fresh(r, "rerun")]
  /\ \/ redis' = 0 /\ UNCHANGED lost
     \/ lost < MaxFaults /\ lost' = lost + 1 /\ UNCHANGED redis
  /\ UNCHANGED <<pg, jobs, began, counter, rows, sync, fallback, mixed, unread, crashes, syncs>>

Auto(r) == \* the pipeline diagnoses the enriched alert, which carries its UID
  /\ req[r].pc = "idle" /\ began < MaxDiagnoses
  /\ req' = [req EXCEPT ![r] = Fresh(r, "auto")]
  /\ UNCHANGED <<redis, pg, jobs, began, counter, rows, sync, fallback, mixed, lost,
                 unread, crashes, syncs>>

-----------------------------------------------------------------------------
(* The engine. *)
Missing(r) == \* the alert is not found, the request fails
  /\ req[r].pc = "begin" /\ Answer(r)
  /\ UNCHANGED <<redis, pg, jobs, began, counter, rows, sync, fallback, mixed, lost,
                 unread, crashes, syncs>>

Begin(r) == \* with no slot free the diagnosis goes on without any context
  /\ req[r].pc = "begin" /\ began < MaxDiagnoses
  /\ began' = began + 1
  /\ req' = [req EXCEPT ![r].n = began + 1,
                        ![r].pc = IF Slots < MaxConcurrent THEN "collect" ELSE "decide",
                        ![r].parts = IF Slots < MaxConcurrent THEN Parts ELSE {}]
  /\ UNCHANGED <<redis, pg, jobs, counter, rows, sync, fallback, lost, unread, crashes, syncs>>
  /\ Mix

Sees(r, part) == IF req[r].uid THEN {part} ELSE {}
ResolveAgain(r) ==
  /\ req[r].pc = "collect" /\ "topology" \in req[r].parts
  /\ \E found \in BOOLEAN :
       req' = [req EXCEPT ![r].uid = found, ![r].parts = @ \ {"topology"},
                          ![r].context = @ \cup (IF found THEN {"topology"} ELSE {})]
  /\ UNCHANGED <<redis, pg, jobs, began, counter, rows, sync, fallback, mixed, lost,
                 unread, crashes, syncs>>
Topology(r) == \* the goroutine resolves a missing UID and writes it into the alert
  /\ req[r].pc = "collect" /\ "topology" \in req[r].parts
  /\ \E found \in {TRUE, req[r].uid} :
       req' = [req EXCEPT ![r].uid = found, ![r].parts = @ \ {"topology"},
                          ![r].context = @ \cup (IF found THEN {"topology"} ELSE {})]
  /\ UNCHANGED <<redis, pg, jobs, began, counter, rows, sync, fallback, mixed, lost,
                 unread, crashes, syncs>>

(* The other goroutines read the UID without waiting for that write: before,  *)
(* after or during it. A read during it sees either value.                    *)
Collect(r, part) ==
  /\ req[r].pc = "collect" /\ part \in req[r].parts \ {"topology"}
  /\ req' = [req EXCEPT ![r].parts = @ \ {part}, ![r].context = @ \cup Sees(r, part)]
  /\ UNCHANGED <<redis, pg, jobs, began, counter, rows, sync, fallback, mixed, lost,
                 unread, crashes, syncs>>

Joined(r) == \* the wait group is done; the related alerts are looked up, the slot is free
  /\ req[r].pc = "collect" /\ req[r].parts = {}
  /\ req' = [req EXCEPT ![r].pc = "decide"]
  /\ UNCHANGED <<redis, pg, jobs, began, counter, rows, sync, fallback, mixed, lost,
                 unread, crashes, syncs>>

Count(keys) == counter' = [k \in Keys |-> counter[k] + (IF k \in keys THEN 1 ELSE 0)]
Decide(r) == \* the diagnosis is counted before it is known who makes it
  /\ req[r].pc = "decide" /\ Count({"total_diagnoses"})
  /\ \E related \in 0..3, critical, provider \in BOOLEAN :
       /\ req[r].context = {} => related = 0
       /\ req' = [req EXCEPT ![r].pc =
                    IF Composite(related, critical) < Threshold /\ provider THEN "ask" ELSE "rules"]
  /\ UNCHANGED <<redis, pg, jobs, began, rows, sync, fallback, mixed, lost, unread, crashes, syncs>>

Ask(r) == \* the agent, then the provider; without an answer the rules make the result
  /\ req[r].pc = "ask" /\ Count({"llm_calls"})
  /\ \E ok \in BOOLEAN :
       /\ req' = [req EXCEPT ![r].pc = IF ok THEN "store" ELSE "rules"]
       /\ fallback' = fallback + (IF ok THEN 0 ELSE 1)
  /\ UNCHANGED <<redis, pg, jobs, began, rows, sync, mixed, lost, unread, crashes, syncs>>

SkipAfterModel(r) ==
  /\ req[r].pc = "rules" /\ Count({"rule_only_calls"} \ {k \in Keys : fallback > 0})
  /\ req' = [req EXCEPT ![r].pc = "store"]
  /\ UNCHANGED <<redis, pg, jobs, began, rows, sync, fallback, mixed, lost, unread, crashes, syncs>>
Rules(r) ==
  /\ req[r].pc = "rules" /\ Count({"rule_only_calls"})
  /\ req' = [req EXCEPT ![r].pc = "store"]
  /\ UNCHANGED <<redis, pg, jobs, began, rows, sync, fallback, mixed, lost, unread, crashes, syncs>>

Store(r) == \* cached at once; kept in PostgreSQL by a goroutine, or by the pipeline next
  /\ req[r].pc = "store"
  /\ \/ redis' = req[r].n /\ UNCHANGED lost
     \/ lost < MaxFaults /\ lost' = lost + 1 /\ UNCHANGED redis
  /\ IF req[r].kind = "auto"
     THEN req' = [req EXCEPT ![r].pc = "persist"] /\ UNCHANGED jobs
     ELSE Answer(r) /\ jobs' = jobs \cup {[to |-> "pg", n |-> req[r].n]}
  /\ UNCHANGED <<pg, began, counter, rows, sync, fallback, mixed, unread, crashes, syncs>>

OnlyFirst(n) == pg' = IF pg = 0 THEN n ELSE pg
Upsert(n) == pg' = n
Persist(r) ==
  /\ req[r].pc = "persist" /\ Answer(r)
  /\ \/ Upsert(req[r].n) /\ UNCHANGED lost
     \/ lost < MaxFaults /\ lost' = lost + 1 /\ UNCHANGED pg
  /\ UNCHANGED <<redis, jobs, began, counter, rows, sync, fallback, mixed, unread, crashes, syncs>>

Job(j) == \* a goroutine writes its result
  /\ j \in jobs /\ jobs' = jobs \ {j}
  /\ \/ j.to = "pg" /\ Upsert(j.n) /\ UNCHANGED <<redis, lost>>
     \/ j.to = "redis" /\ redis' = j.n /\ UNCHANGED <<pg, lost>>
     \/ lost < MaxFaults /\ lost' = lost + 1 /\ UNCHANGED <<redis, pg>>
  /\ UNCHANGED <<req, began, counter, rows, sync, fallback, mixed, unread, crashes, syncs>>

Resolved == \* the alert is resolved, or the cached result expires
  /\ redis # 0 /\ redis' = 0
  /\ UNCHANGED <<req, pg, jobs, began, counter, rows, sync, fallback, mixed, lost,
                 unread, crashes, syncs>>

-----------------------------------------------------------------------------
(* The counters are read one after another, then written row by row. *)
Order == <<"total_diagnoses", "llm_calls", "rule_only_calls">>
ReadStat ==
  /\ ~sync.writing /\ Len(sync.values) < 3 /\ (sync.values = <<>> => counter # rows)
  /\ syncs < MaxSyncs /\ syncs' = syncs + (IF Len(sync.values) = 2 THEN 1 ELSE 0)
  /\ sync' = [sync EXCEPT !.values = Append(@, counter[Order[Len(@) + 1]]),
                          !.writing = (Len(sync.values) = 2)]
  /\ UNCHANGED <<req, redis, pg, jobs, began, counter, rows, fallback, mixed, lost, unread, crashes>>

WriteStat ==
  /\ sync.writing
  /\ LET key == Order[4 - Len(sync.values)]
     IN \/ rows' = [rows EXCEPT ![key] = Head(sync.values)] /\ UNCHANGED lost
        \/ lost < MaxFaults /\ lost' = lost + 1 /\ UNCHANGED rows
  /\ sync' = [values |-> Tail(sync.values), writing |-> Len(sync.values) > 1]
  /\ UNCHANGED <<req, redis, pg, jobs, began, counter, fallback, mixed, unread, crashes, syncs>>

StartAtZero ==
  /\ crashes < MaxCrashes /\ crashes' = crashes + 1
  /\ req' = [r \in Requests |-> Idle] /\ jobs' = {} /\ sync' = NoSync
  /\ lost' = IF jobs # {} \/ \E r \in Requests : Diagnosing(r) THEN lost + 1 ELSE lost
  /\ counter' = Zero /\ fallback' = 0
  /\ UNCHANGED <<redis, pg, began, rows, mixed, unread, syncs>>
Restart == \* requests and goroutines are gone, the counters are loaded, if they can be
  /\ crashes < MaxCrashes /\ crashes' = crashes + 1
  /\ req' = [r \in Requests |-> Idle] /\ jobs' = {} /\ sync' = NoSync
  /\ lost' = IF jobs # {} \/ \E r \in Requests : Diagnosing(r) THEN lost + 1 ELSE lost
  /\ \/ counter' = rows /\ UNCHANGED unread
     \/ lost < MaxFaults /\ counter' = Zero /\ unread' = TRUE
  /\ fallback' = 0
  /\ UNCHANGED <<redis, pg, began, rows, mixed, syncs>>

Step(r) == Missing(r) \/ Begin(r) \/ Topology(r) \/ (\E p \in Parts : Collect(r, p)) \/ Joined(r)
           \/ Decide(r) \/ Ask(r) \/ Rules(r) \/ Store(r) \/ Persist(r) \/ Lookup(r)
Next ==
  \/ \E r \in Requests : Run(r) \/ Rerun(r) \/ Auto(r) \/ Step(r)
  \/ \E j \in jobs : Job(j)
  \/ Resolved \/ ReadStat \/ WriteStat \/ Restart
Spec == Init /\ [][Next]_vars

-----------------------------------------------------------------------------
Quiet == jobs = {} /\ \A r \in Requests : ~Diagnosing(r)

(* When nothing is being written, Redis holds no other result than            *)
(* PostgreSQL, and PostgreSQL the newest, unless a call to a store failed or  *)
(* two results were about to be written at one time (redis_storage.go:306,    *)
(* diagnosis_controller.go:143).                                              *)
StoresAgree == Quiet /\ lost = 0 /\ ~mixed => redis \in {0, pg} /\ pg = began

(* A diagnosis whose alert came with its UID has the context that a serial    *)
(* collection would give it, whatever the order of the collector's            *)
(* goroutines (context_collector.go:126-360, engine.go:970).                  *)
SameAsSerial ==
  \A r \in Requests : req[r].kind = "auto" /\ req[r].pc = "decide"
                      => req[r].context \in {Parts, {}}

(* The counters in PostgreSQL never fall, whatever restarts happen, as long   *)
(* as every start could load them (engine.go:173, 195).                       *)
TotalsNeverFall == [][~unread' => \A k \in Keys : rows'[k] >= rows[k]]_rows

(* Requests count at different moments, yet every diagnosis is counted once   *)
(* for the path that made it, a failed model in addition (engine.go:302-362). *)
CountedOnce ==
  crashes = 0 =>
    counter["llm_calls"] + counter["rule_only_calls"]
      + Cardinality({r \in Requests : req[r].pc = "ask" \/ req[r].pc = "rules"})
    = counter["total_diagnoses"] + fallback

(* The log says of a saturated collector that the request is rejected         *)
(* (context_collector.go:109); a rejected request has no answer to store.     *)
RejectedNotStored ==
  \A r \in Requests : req[r].pc = "store" => req[r].kind # "auto" \/ req[r].context # {}
=============================================================================
