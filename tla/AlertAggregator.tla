--------------------------- MODULE AlertAggregator ---------------------------
(* The aggregator of alerts: handlers add alerts to groups while a scheduler  *)
(* flushes the groups and sends one summary of them.                          *)
EXTENDS Naturals, FiniteSets, FiniteSetsExt

CONSTANTS Alerts,    \* alerts of the handlers
          Keys,      \* group keys: alert name, namespace and owner
          Times,     \* start times; 0 is the zero time
          MaxTicks   \* bound on the ticks of the scheduler's ticker

VARIABLES
  alert,      \* per alert: its key, its start time, whether it was added
  groups,     \* the map of groups: per key the group or NoGroup
  ticker,     \* new, running, nil
  tick,       \* whether a tick waits in the ticker's channel
  scheduler,  \* none, loop, select, flushing, sending, returned, panicked
  batch,      \* the groups the scheduler took in its last flush
  summaries,  \* the summaries sent, each a set of groups
  ticks
vars == <<alert, groups, ticker, tick, scheduler, batch, summaries, ticks>>

NoGroup == [alerts |-> {}, first |-> 0, last |-> 0]
Init ==
  /\ alert \in [Alerts -> [key : Keys, at : Times, added : {FALSE}]]
  /\ groups = [k \in Keys |-> NoGroup]
  /\ ticker = "new" /\ tick = FALSE /\ scheduler = "none"
  /\ batch = {} /\ summaries = {} /\ ticks = 0

-----------------------------------------------------------------------------
(* An alert without a start time leaves the bounds of a group alone, unless   *)
(* it opens the group.                                                        *)
Earliest(group, at) ==
  IF at # 0 /\ (group.first = 0 \/ at < group.first) THEN at ELSE group.first
LastAdded(group, at) == at
Latest(group, at) == IF at > group.last THEN at ELSE group.last
Joined(group, a) ==
  LET at == alert[a].at
  IN IF group.alerts = {} THEN [alerts |-> {a}, first |-> at, last |-> at]
     ELSE [alerts |-> group.alerts \cup {a},
           first |-> Earliest(group, at), last |-> Latest(group, at)]

Add(a) ==
  /\ ~alert[a].added
  /\ alert' = [alert EXCEPT ![a].added = TRUE]
  /\ groups' = [groups EXCEPT ![alert[a].key] = Joined(@, a)]
  /\ UNCHANGED <<ticker, tick, scheduler, batch, summaries, ticks>>

(* The scheduler starts once: a second call finds the ticker.                 *)
StartFlushScheduler ==
  /\ ticker = "new"
  /\ ticker' = "running" /\ scheduler' = "loop"
  /\ UNCHANGED <<alert, groups, tick, batch, summaries, ticks>>

Tick == \* the channel of the ticker holds one tick
  /\ ticker = "running" /\ ticks < MaxTicks
  /\ tick' = TRUE /\ ticks' = ticks + 1
  /\ UNCHANGED <<alert, groups, ticker, scheduler, batch, summaries>>

(* The loop reads the ticker field each time it enters its select, without    *)
(* the lock: a nil field is dereferenced.                                     *)
Select ==
  /\ scheduler = "loop"
  /\ scheduler' = IF ticker = "nil" THEN "panicked" ELSE "select"
  /\ UNCHANGED <<alert, groups, ticker, tick, batch, summaries, ticks>>
Ticked ==
  /\ scheduler = "select" /\ tick
  /\ tick' = FALSE /\ scheduler' = "flushing"
  /\ UNCHANGED <<alert, groups, ticker, batch, summaries, ticks>>
Done ==
  /\ scheduler = "select" /\ ticker = "nil"
  /\ scheduler' = "returned"
  /\ UNCHANGED <<alert, groups, ticker, tick, batch, summaries, ticks>>

Kept == groups
Emptied == [k \in Keys |-> NoGroup]
Flush ==
  /\ scheduler = "flushing"
  /\ batch' = {groups[k] : k \in {l \in Keys : groups[l].alerts # {}}}
  /\ groups' = Emptied
  /\ scheduler' = IF batch' = {} THEN "loop" ELSE "sending"
  /\ UNCHANGED <<alert, ticker, tick, summaries, ticks>>
SendAggregatedAlerts == \* errors of the channels are dropped
  /\ scheduler = "sending"
  /\ summaries' = summaries \cup {batch} /\ batch' = {} /\ scheduler' = "loop"
  /\ UNCHANGED <<alert, groups, ticker, tick, ticks>>

Stop == \* the ticker stops; a tick that is in its channel stays there
  /\ ticker = "running"
  /\ ticker' = "nil"
  /\ UNCHANGED <<alert, groups, tick, scheduler, batch, summaries, ticks>>

Next ==
  \/ \E a \in Alerts : Add(a)
  \/ StartFlushScheduler \/ Tick \/ Stop
  \/ Select \/ Ticked \/ Done \/ Flush \/ SendAggregatedAlerts
Spec == Init /\ [][Next]_vars

-----------------------------------------------------------------------------
Live == {groups[k] : k \in {l \in Keys : groups[l].alerts # {}}}

(* However adds, flushes and the summary interleave, an added alert is in one *)
(* place: the current groups, the batch under way or one summary              *)
(* (aggregator.go:67-123).                                                    *)
EachInOnePlace ==
  \A a \in Alerts :
    Cardinality({g \in Live : a \in g.alerts})
    + Cardinality({g \in batch : a \in g.alerts})
    + Cardinality({s \in summaries : \E g \in s : a \in g.alerts})
    = IF alert[a].added THEN 1 ELSE 0

(* The times a summary gives for a group are those of its earliest and of its *)
(* latest alert, in whatever order they were added (aggregator.go:95-105).    *)
BoundsExact ==
  \A g \in UNION ({Live, batch} \cup summaries) :
    LET at == {alert[a].at : a \in g.alerts} \ {0}
    IN at # {} => g.first = Min(at) /\ g.last = Max(at)

(* "Stop stops the flush scheduler" (aggregator.go:153): it does not crash.   *)
StopIsClean == scheduler # "panicked"
=============================================================================
