---------------------------- MODULE MetricsQuery ----------------------------
(* Metrics from Prometheus (services/prometheus/query_service.go) and the     *)
(* cache of its range queries (cache.go, over bigcache). The text of a query   *)
(* is the list of what its placeholders are filled with: "?" for one that has *)
(* no argument, "+" for an argument that has no placeholder; either makes an  *)
(* expression Prometheus refuses.                                             *)
EXTENDS Naturals, Sequences, SequencesExt

CONSTANTS
  Objects,                 \* names of resources of one namespace
  Kinds,                   \* kind -> its templates, a sequence of placeholders
  Configured,              \* TRUE: placeholders with an index, from the profiles
  Life, CleanWindow,       \* of the cache
  MaxTime, MaxCalls, MaxFaults

VARIABLES
  sample,    \* the present value of each object's metrics
  since,     \* the values it had since the call began
  query,     \* one call of QueryMetric
  kept,      \* the cache of one range query: the sample's version and its age
  answer,    \* the age of the last range answer, and whether it was stored
  minutes, asks, breaks

vars == <<sample, since, query, kept, answer, minutes, asks, breaks>>

Idle == [stage |-> "idle", kind |-> "", of |-> "", at |-> 1, results |-> {}]
Empty == [full |-> FALSE, age |-> 0]

Init ==
  /\ sample = [o \in Objects |-> 0] /\ since = [o \in Objects |-> {0}]
  /\ query = Idle /\ kept = Empty /\ answer = Empty
  /\ minutes = 0 /\ asks = 0 /\ breaks = 0

Ask == asks < MaxCalls /\ asks' = asks + 1

-----------------------------------------------------------------------------
\* fmt.Sprintf: in order, or by index with the templates of the profiles.
Swapped(kind, o) == <<o, IF kind = "Node" THEN "" ELSE "namespace">>
Arguments(kind, o) == <<IF kind = "Node" THEN "" ELSE "namespace", o>>
Filled(kind, template, o) ==
  LET args == Arguments(kind, o)
      Slot(i) == IF Configured THEN args[template[i]]
                 ELSE IF i <= Len(args) THEN args[i] ELSE "?"
      slots == [i \in 1..Len(template) |-> Slot(i)]
  IN IF ~Configured /\ Len(template) < Len(args) THEN Append(slots, "+") ELSE slots

\* What Prometheus makes of it: the object all of the name's places agree on.
\* template[i] is 1 where the namespace belongs and 2 where the name does.
Understood(text) == "?" \notin ToSet(text) /\ "+" \notin ToSet(text)
Named(template, text) == {text[i] : i \in {j \in 1..Len(template) : template[j] = 2}}
Selected(template, text) ==
  {o \in Objects : Understood(text) /\ Named(template, text) = {o}}

Begin(kind, o) ==
  /\ query.stage = "idle" /\ Ask
  /\ query' = [Idle EXCEPT !.stage = "ask", !.kind = kind, !.of = o]
  /\ since' = [p \in Objects |-> {sample[p]}]
  /\ UNCHANGED <<sample, kept, answer, minutes, breaks>>

\* One template after the other; an error or an empty answer leaves that metric out.
Step(results) ==
  query' = [query EXCEPT !.results = @ \cup results, !.at = @ + 1,
    !.stage = IF query.at = Len(Kinds[query.kind]) THEN "done" ELSE "ask"]
Execute ==
  /\ query.stage = "ask"
  /\ LET template == Kinds[query.kind][query.at]
         text == Filled(query.kind, template, query.of)
     IN Step({<<query.at, sample[o]>> : o \in Selected(template, text)})
  /\ UNCHANGED <<sample, since, kept, answer, minutes, asks, breaks>>
ExecuteFails ==
  /\ query.stage = "ask" /\ breaks < MaxFaults /\ breaks' = breaks + 1
  /\ Step({}) /\ UNCHANGED <<sample, since, kept, answer, minutes, asks>>
Finish ==
  /\ query.stage = "done" /\ query' = Idle
  /\ UNCHANGED <<sample, since, kept, answer, minutes, asks, breaks>>

-----------------------------------------------------------------------------
(* QueryRange with one expression and one window.                            *)
Hit == kept.full
QueryRange ==
  /\ Ask
  /\ IF Hit THEN answer' = kept /\ UNCHANGED kept
            ELSE /\ kept' = [full |-> TRUE, age |-> 0]
                 /\ answer' = [full |-> FALSE, age |-> 0]
  /\ UNCHANGED <<sample, since, query, minutes, breaks>>
\* An error or an empty result is not stored.
QueryRangeFails ==
  /\ Ask /\ ~Hit /\ breaks < MaxFaults /\ breaks' = breaks + 1
  /\ answer' = Empty /\ UNCHANGED <<sample, since, query, kept, minutes>>

\* bigcache drops what is older than Life, but only every CleanWindow; Get does
\* not look at the age.
NeverDrops(age) == FALSE
Drops(age) == minutes' % CleanWindow = 0 /\ age > Life
Tick ==
  /\ minutes < MaxTime /\ minutes' = minutes + 1
  /\ kept' = IF kept.full /\ ~Drops(kept.age + 1) THEN [kept EXCEPT !.age = @ + 1] ELSE Empty
  /\ answer' = Empty
  /\ UNCHANGED <<sample, since, query, asks, breaks>>

Change(o) ==
  /\ sample[o] < MaxTime /\ sample' = [sample EXCEPT ![o] = @ + 1]
  /\ since' = [since EXCEPT ![o] = @ \cup {sample'[o]}]
  /\ UNCHANGED <<query, kept, answer, minutes, asks, breaks>>

Next ==
  \/ \E k \in DOMAIN Kinds, o \in Objects : Begin(k, o)
  \/ Execute \/ ExecuteFails \/ Finish \/ QueryRange \/ QueryRangeFails \/ Tick
  \/ \E o \in Objects : Change(o)

Spec == Init /\ [][Next]_vars

-----------------------------------------------------------------------------
\* Every value a metrics query returns is one the object that was asked for had
\* during the call, and when nothing failed a Pod has all of the metrics whose
\* templates name the namespace and the name once.
ValuesOfAsked ==
  query.stage = "done" =>
    /\ \A r \in query.results : r[2] \in since[query.of]
    /\ (breaks = 0 /\ query.kind = "Pod") =>
         \A i \in DOMAIN Kinds["Pod"] :
           Kinds["Pod"][i] = <<1, 2>> => \E r \in query.results : r[1] = i

\* A range answer from the cache is never older than the life of an entry and
\* one interval of its clean-up.
RangeAgeBounded == answer.full => answer.age <= Life + CleanWindow

\* TestMetricsEndpoints expects every Node metric in the answer.
NodeMetricsFound ==
  (query.stage = "done" /\ query.kind = "Node" /\ breaks = 0) =>
     {r[1] : r \in query.results} = DOMAIN Kinds["Node"]
=============================================================================
