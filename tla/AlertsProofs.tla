---------------------------- MODULE AlertsProofs ----------------------------
(* The parts of MCAlerts around the service for every value of the          *)
(* constants: the aggregator, the two stores, routing and enrichment.       *)
EXTENDS MCAlerts, FiniteSetTheorems, TLAPS

allVars == <<part, vars, groupVars, storeVars, routeVars, enrichVars>>

-----------------------------------------------------------------------------
(* The aggregator.                                                          *)

Group == [alerts: SUBSET Grouped, first: Nat, last: Nat]

\* An alert waits in the group of its key, is in the batch that is being sent, or
\* in a summary.
Waits(a) == a \in groups[alert[a].key].alerts
InBatch(a) == \E g \in batch : a \in g.alerts
InSummary(a) == \E s \in summaries : \E g \in s : a \in g.alerts

\* The times of a group are those of its earliest and latest alert that has one.
Timed(g, al) == {a \in g.alerts : al[a].at # 0}
Bounded(g, al) ==
  /\ Timed(g, al) = {} => g.first = 0 /\ g.last = 0
  /\ Timed(g, al) # {} =>
       /\ \E a \in Timed(g, al) : g.first = al[a].at
       /\ \E a \in Timed(g, al) : g.last = al[a].at
       /\ \A a \in Timed(g, al) : g.first <= al[a].at /\ al[a].at <= g.last

GroupType ==
  /\ alert \in [Grouped -> [key: Keys, at: StartTimes, added: BOOLEAN]]
  /\ groups \in [Keys -> Group]
  /\ batch \subseteq Group
  /\ summaries \subseteq SUBSET Group
PlaceInv ==
  /\ \A k \in Keys : \A a \in groups[k].alerts : alert[a].key = k
  /\ ticker = "new" => scheduler = "none"
  /\ scheduler # "sending" => batch = {}
  /\ scheduler = "sending" => batch # {}
  /\ \A g \in batch : g.alerts # {}
  /\ \A g, h \in batch : \A a \in g.alerts \cap h.alerts : g = h
  /\ \A s, t \in summaries : \A g \in s, h \in t : \A a \in g.alerts \cap h.alerts : s = t
  /\ \A a \in Grouped :
       /\ alert[a].added <=> Waits(a) \/ InBatch(a) \/ InSummary(a)
       /\ ~(Waits(a) /\ InBatch(a)) /\ ~(Waits(a) /\ InSummary(a))
       /\ ~(InBatch(a) /\ InSummary(a))
BoundInv ==
  /\ \A k \in Keys : Bounded(groups[k], alert)
  /\ \A g \in batch : Bounded(g, alert)
  /\ \A s \in summaries : \A g \in s : Bounded(g, alert)
GroupInv == GroupType /\ PlaceInv /\ BoundInv

LEMMA GroupSteps ==
  ASSUME part = "groups", [AlertsNext]_allVars
  PROVE  part' = part /\ (Groups!Next \/ UNCHANGED groupVars)
BY DEF AlertsNext, allVars

LEMMA GroupStart ==
  ASSUME AlertsInit, part = "groups"
  PROVE  GroupInv
<1>1. Groups!Init
  BY DEF AlertsInit
<1>2. /\ alert \in [Grouped -> [key: Keys, at: StartTimes, added: {FALSE}]]
      /\ groups = [k \in Keys |-> Groups!NoGroup]
      /\ batch = {} /\ summaries = {} /\ scheduler = "none" /\ ticker = "new"
  BY <1>1 DEF Groups!Init
<1>3. \A k \in Keys : groups[k] = [alerts |-> {}, first |-> 0, last |-> 0]
  BY <1>2 DEF Groups!NoGroup
<1>4. GroupType
  <2>1. Groups!NoGroup \in Group
    BY DEF Groups!NoGroup, Group
  <2>2. \A r \in [key: Keys, at: StartTimes, added: {FALSE}] :
          r \in [key: Keys, at: StartTimes, added: BOOLEAN]
    OBVIOUS
  <2>3. alert \in [Grouped -> [key: Keys, at: StartTimes, added: BOOLEAN]]
    BY <1>2, <2>2
  <2>4. QED
    BY <1>2, <2>1, <2>3 DEF GroupType
<1>5. PlaceInv
  <2>1. \A a \in Grouped : ~alert[a].added /\ alert[a].key \in Keys
    BY <1>2
  <2>2. \A a \in Grouped : ~Waits(a) /\ ~InBatch(a) /\ ~InSummary(a)
    BY <1>2, <1>3, <2>1 DEF Waits, InBatch, InSummary
  <2>3. QED
    BY <1>2, <1>3, <2>1, <2>2 DEF PlaceInv
<1>6. BoundInv
  BY <1>2, <1>3 DEF BoundInv, Bounded, Timed
<1>7. QED
  BY <1>4, <1>5, <1>6 DEF GroupInv

\* The bounds of a group that an alert joins.
LEMMA JoinedBounded ==
  ASSUME GroupType, NEW a \in Grouped, NEW g \in Group, Bounded(g, alert), a \notin g.alerts
  PROVE  Groups!Joined(g, a) \in Group /\ Bounded(Groups!Joined(g, a), alert)
         /\ Groups!Joined(g, a).alerts = g.alerts \cup {a}
<1> DEFINE j == Groups!Joined(g, a)
           at == alert[a].at
<1>1. at \in Nat /\ g.first \in Nat /\ g.last \in Nat /\ g.alerts \subseteq Grouped
  BY AlertsAssumption DEF GroupType, Group
<1>2. \A b \in Grouped : alert[b].at \in Nat
  BY AlertsAssumption DEF GroupType
<1>3. CASE g.alerts = {}
  <2>1. j = [alerts |-> {a}, first |-> at, last |-> at]
    BY <1>3 DEF Groups!Joined
  <2>2. Timed(j, alert) = IF at = 0 THEN {} ELSE {a}
    BY <2>1 DEF Timed
  <2>3. j \in Group /\ j.alerts = {a} /\ j.first = at /\ j.last = at
    BY <1>1, <2>1 DEF Group
  <2>4. Bounded(j, alert)
    BY <1>1, <2>2, <2>3 DEF Bounded
  <2>5. QED
    BY <1>3, <2>3, <2>4
<1>4. CASE g.alerts # {}
  <2>1. j = [alerts |-> g.alerts \cup {a},
             first |-> IF at # 0 /\ (g.first = 0 \/ at < g.first) THEN at ELSE g.first,
             last |-> IF at > g.last THEN at ELSE g.last]
    BY <1>4 DEF Groups!Joined, Groups!Earliest, Groups!Latest
  <2>2. Timed(j, alert) = IF at = 0 THEN Timed(g, alert) ELSE Timed(g, alert) \cup {a}
    BY <2>1 DEF Timed
  <2>3. Timed(g, alert) \subseteq Grouped /\ \A b \in Timed(g, alert) : alert[b].at # 0
    BY <1>1 DEF Timed
  <2>4. j \in Group /\ j.alerts = g.alerts \cup {a}
    BY <1>1, <2>1 DEF Group
  <2>5. CASE at = 0
    <3>1. j.first = g.first /\ j.last = g.last /\ Timed(j, alert) = Timed(g, alert)
      BY <1>1, <2>1, <2>2, <2>5
    <3>2. QED
      BY <2>4, <3>1 DEF Bounded
  <2>6. CASE at # 0 /\ Timed(g, alert) = {}
    <3>1. g.first = 0 /\ g.last = 0
      BY <2>6 DEF Bounded
    <3>2. j.first = at /\ j.last = at /\ Timed(j, alert) = {a}
      BY <1>1, <2>1, <2>2, <2>6, <3>1
    <3>3. QED
      BY <1>1, <2>4, <3>2 DEF Bounded
  <2>7. CASE at # 0 /\ Timed(g, alert) # {}
    <3>1. g.first # 0
      BY <2>3, <2>7 DEF Bounded
    <3>2. \A b \in Timed(g, alert) : alert[b].at \in Nat /\ g.first <= alert[b].at
                              /\ alert[b].at <= g.last
      BY <1>2, <2>3, <2>7 DEF Bounded
    <3>3. \A b \in Timed(j, alert) : j.first <= alert[b].at /\ alert[b].at <= j.last
      <4>1. /\ j.first \in Nat /\ j.first <= at /\ j.first <= g.first
            /\ j.last \in Nat /\ at <= j.last /\ g.last <= j.last
        BY <1>1, <2>1, <2>7, <3>1
      <4>2. \A b \in Timed(j, alert) : b = a \/ b \in Timed(g, alert)
        BY <2>2
      <4>3. QED
        BY <1>1, <3>2, <4>1, <4>2
    <3>4. \E b \in Timed(j, alert) : j.first = alert[b].at
      <4>1. j.first \in {at, g.first} /\ a \in Timed(j, alert) /\ Timed(g, alert) \subseteq Timed(j, alert)
        BY <2>1, <2>2, <2>7
      <4>2. QED
        BY <2>7, <4>1 DEF Bounded
    <3>5. \E b \in Timed(j, alert) : j.last = alert[b].at
      <4>1. j.last \in {at, g.last} /\ a \in Timed(j, alert) /\ Timed(g, alert) \subseteq Timed(j, alert)
        BY <2>1, <2>2, <2>7
      <4>2. QED
        BY <2>7, <4>1 DEF Bounded
    <3>6. QED
      BY <2>4, <3>3, <3>4, <3>5 DEF Bounded
  <2>8. QED
    BY <2>4, <2>5, <2>6, <2>7
<1>5. QED
  BY <1>3, <1>4

\* No step changes the key or the time of an alert, so the groups keep their bounds.
LEMMA BoundedStays ==
  ASSUME GroupType, NEW g \in Group, Bounded(g, alert),
         \A a \in Grouped : alert'[a].at = alert[a].at
  PROVE  Bounded(g, alert')
<1>1. Timed(g, alert') = Timed(g, alert) /\ Timed(g, alert) \subseteq Grouped
  BY DEF Timed, Group
<1>2. \A a \in Timed(g, alert) : alert'[a].at = alert[a].at
  BY <1>1
<1>3. QED
  BY <1>1, <1>2 DEF Bounded

\* An alert is added to the group of its key.
LEMMA GroupsAdd ==
  ASSUME GroupInv, NEW a \in Grouped, Groups!Add(a)
  PROVE  GroupInv'
<1> DEFINE k == alert[a].key
           j == Groups!Joined(groups[k], a)
<1>1. /\ ~alert[a].added
      /\ alert' = [alert EXCEPT ![a].added = TRUE]
      /\ groups' = [groups EXCEPT ![k] = j]
      /\ UNCHANGED <<ticker, scheduler, batch, summaries>>
  BY DEF Groups!Add
<1>2. /\ alert \in [Grouped -> [key: Keys, at: StartTimes, added: BOOLEAN]]
      /\ groups \in [Keys -> Group] /\ k \in Keys /\ groups[k] \in Group
  BY DEF GroupInv, GroupType
<1>3. ~Waits(a) /\ ~InBatch(a) /\ ~InSummary(a)
  BY <1>1 DEF GroupInv, PlaceInv
<1>4. j \in Group /\ Bounded(j, alert) /\ j.alerts = groups[k].alerts \cup {a}
  BY <1>2, <1>3, JoinedBounded DEF GroupInv, BoundInv, Waits
<1>5. \A b \in Grouped : /\ alert'[b].key = alert[b].key /\ alert'[b].at = alert[b].at
                         /\ alert'[b].added = (alert[b].added \/ b = a)
  BY <1>1, <1>2
<1>6. /\ groups'[k] = j
      /\ \A l \in Keys : l # k => groups'[l] = groups[l]
      /\ groups' \in [Keys -> Group]
  <2> HIDE DEF j, k
  <2>1. QED
    BY <1>1, <1>2, <1>4
<1>7. GroupType'
  <2>1. alert' \in [Grouped -> [key: Keys, at: StartTimes, added: BOOLEAN]]
    BY <1>1, <1>2
  <2>2. QED
    BY <1>1, <1>6, <2>1 DEF GroupInv, GroupType
<1>8. BoundInv'
  <2>1. \A g \in Group : Bounded(g, alert) => Bounded(g, alert')
    BY <1>5, BoundedStays DEF GroupInv
  <2>2. \A l \in Keys : Bounded(groups'[l], alert')
    <3> HIDE DEF j, k
    <3>1. \A l \in Keys : groups'[l] \in Group /\ Bounded(groups'[l], alert)
      BY <1>2, <1>4, <1>6 DEF GroupInv, BoundInv
    <3>2. QED
      BY <2>1, <3>1
  <2>3. \A g \in batch : Bounded(g, alert')
    BY <2>1 DEF GroupInv, GroupType, BoundInv
  <2>4. \A s \in summaries : \A g \in s : Bounded(g, alert')
    BY <2>1 DEF GroupInv, GroupType, BoundInv
  <2>5. QED
    BY <1>1, <2>2, <2>3, <2>4 DEF BoundInv
<1>9. PlaceInv'
  <2>1. \A l \in Keys : \A b \in groups'[l].alerts : b \in Grouped /\ alert'[b].key = l
    <3>1. TAKE l \in Keys
    <3>2. TAKE b \in groups'[l].alerts
    <3>3. b \in Grouped /\ (b \in groups[l].alerts \/ (l = k /\ b = a))
      BY <1>2, <1>4, <1>6 DEF Group
    <3>4. QED
      BY <1>5, <3>3 DEF GroupInv, PlaceInv
  <2>2. \A b \in Grouped : Waits(b)' <=> Waits(b) \/ b = a
    <3>1. TAKE b \in Grouped
    <3>2. alert'[b].key = alert[b].key /\ alert[b].key \in Keys
      BY <1>2, <1>5
    <3>3. CASE alert[b].key = k
      <4>1. Waits(b)' <=> b \in j.alerts
        BY <1>6, <3>2, <3>3 DEF Waits
      <4>2. QED
        BY <1>4, <3>3, <4>1 DEF Waits
    <3>4. CASE alert[b].key # k
      BY <1>6, <3>2, <3>4 DEF Waits
    <3>5. QED
      BY <3>3, <3>4
  <2>3. \A b \in Grouped : (InBatch(b)' <=> InBatch(b)) /\ (InSummary(b)' <=> InSummary(b))
    BY <1>1 DEF InBatch, InSummary
  <2>4. \A b \in Grouped :
          /\ alert'[b].added <=> Waits(b)' \/ InBatch(b)' \/ InSummary(b)'
          /\ ~(Waits(b)' /\ InBatch(b)') /\ ~(Waits(b)' /\ InSummary(b)')
          /\ ~(InBatch(b)' /\ InSummary(b)')
    BY <1>3, <1>5, <2>2, <2>3 DEF GroupInv, PlaceInv
  <2>5. QED
    BY <1>1, <2>1, <2>4 DEF GroupInv, PlaceInv
<1>10. QED
  BY <1>7, <1>8, <1>9 DEF GroupInv

\* The scheduler takes the groups that have alerts.
LEMMA GroupsFlush ==
  ASSUME GroupInv, Groups!Flush
  PROVE  GroupInv'
<1>1. /\ scheduler = "flushing"
      /\ batch' = {groups[k] : k \in {l \in Keys : groups[l].alerts # {}}}
      /\ groups' = [k \in Keys |-> Groups!NoGroup]
      /\ scheduler' = IF batch' = {} THEN "loop" ELSE "sending"
      /\ UNCHANGED <<alert, summaries, ticker>>
  BY DEF Groups!Flush, Groups!Emptied
<1>2. /\ alert \in [Grouped -> [key: Keys, at: StartTimes, added: BOOLEAN]]
      /\ groups \in [Keys -> Group] /\ batch = {}
  BY <1>1 DEF GroupInv, GroupType, PlaceInv
<1>3. \A k \in Keys : groups'[k] = [alerts |-> {}, first |-> 0, last |-> 0]
  BY <1>1 DEF Groups!NoGroup
<1>4. \A g \in batch' : /\ g \in Group /\ g.alerts # {}
                        /\ \E k \in Keys : g = groups[k]
  BY <1>1, <1>2
<1>5. GroupType'
  <2>1. Groups!NoGroup \in Group
    BY DEF Groups!NoGroup, Group
  <2>2. QED
    BY <1>1, <1>4, <2>1 DEF GroupInv, GroupType
<1>6. BoundInv'
  <2>1. \A g \in Group : Bounded(g, alert) => Bounded(g, alert')
    BY <1>1, BoundedStays DEF GroupInv
  <2>2. \A k \in Keys : Bounded(groups'[k], alert')
    BY <1>3 DEF Bounded, Timed
  <2>3. \A g \in batch' : Bounded(g, alert')
    BY <1>4, <2>1 DEF GroupInv, BoundInv
  <2>4. \A s \in summaries : \A g \in s : Bounded(g, alert')
    BY <2>1 DEF GroupInv, GroupType, BoundInv
  <2>5. QED
    BY <1>1, <2>2, <2>3, <2>4 DEF BoundInv
<1>7. PlaceInv'
  <2>1. \A a \in Grouped : ~Waits(a)'
    BY <1>1, <1>2, <1>3 DEF Waits
  <2>2. \A a \in Grouped : InBatch(a)' <=> Waits(a)
    <3>1. TAKE a \in Grouped
    <3>2. ASSUME Waits(a) PROVE InBatch(a)'
      <4>1. alert[a].key \in {l \in Keys : groups[l].alerts # {}}
        BY <1>2, <3>2 DEF Waits
      <4>2. groups[alert[a].key] \in batch'
        BY <1>1, <4>1
      <4>3. QED
        BY <3>2, <4>2 DEF Waits, InBatch
    <3>3. ASSUME InBatch(a)' PROVE Waits(a)
      BY <1>4, <3>3 DEF Waits, InBatch, GroupInv, PlaceInv
    <3>4. QED
      BY <3>2, <3>3
  <2>3. \A a \in Grouped : (InSummary(a)' <=> InSummary(a)) /\ ~InBatch(a)
    BY <1>1, <1>2 DEF InBatch, InSummary
  <2>4. \A g, h \in batch' : \A a \in g.alerts \cap h.alerts : g = h
    BY <1>4 DEF GroupInv, PlaceInv
  <2>5. /\ ticker' = "new" => scheduler' = "none"
        /\ scheduler' # "sending" => batch' = {}
        /\ scheduler' = "sending" => batch' # {}
    BY <1>1 DEF GroupInv, PlaceInv
  <2>6. \A a \in Grouped :
          /\ alert'[a].added <=> Waits(a)' \/ InBatch(a)' \/ InSummary(a)'
          /\ ~(Waits(a)' /\ InBatch(a)') /\ ~(Waits(a)' /\ InSummary(a)')
          /\ ~(InBatch(a)' /\ InSummary(a)')
    BY <1>1, <2>1, <2>2, <2>3 DEF GroupInv, PlaceInv
  <2>7. \A s, t \in summaries' : \A g \in s, h \in t : \A a \in g.alerts \cap h.alerts : s = t
    BY <1>1 DEF GroupInv, PlaceInv
  <2>8. QED
    BY <1>3, <1>4, <2>4, <2>5, <2>6, <2>7 DEF PlaceInv
<1>8. QED
  BY <1>5, <1>6, <1>7 DEF GroupInv

\* The batch becomes a summary.
LEMMA GroupsSend ==
  ASSUME GroupInv, Groups!SendAggregatedAlerts
  PROVE  GroupInv'
<1>1. /\ scheduler = "sending"
      /\ summaries' = summaries \cup {batch} /\ batch' = {} /\ scheduler' = "loop"
      /\ UNCHANGED <<alert, groups, ticker>>
  BY DEF Groups!SendAggregatedAlerts
<1>2. GroupType'
  BY <1>1 DEF GroupInv, GroupType
<1>3. BoundInv'
  <2>1. \A g \in Group : Bounded(g, alert) => Bounded(g, alert')
    BY <1>1, BoundedStays DEF GroupInv
  <2>2. \A k \in Keys : Bounded(groups[k], alert')
    BY <2>1 DEF GroupInv, GroupType, BoundInv
  <2>3. \A s \in summaries' : \A g \in s : Bounded(g, alert')
    BY <1>1, <2>1 DEF GroupInv, GroupType, BoundInv
  <2>4. QED
    BY <1>1, <2>2, <2>3 DEF BoundInv
<1>4. PlaceInv'
  <2>1. \A a \in Grouped : /\ (Waits(a)' <=> Waits(a)) /\ ~InBatch(a)'
                           /\ (InSummary(a)' <=> InSummary(a) \/ InBatch(a))
    BY <1>1 DEF Waits, InBatch, InSummary
  <2>2. \A s \in summaries : \A g \in s, h \in batch : g.alerts \cap h.alerts = {}
    <3>1. \A g \in batch : g.alerts \subseteq Grouped
      BY DEF GroupInv, GroupType, Group
    <3>2. QED
      BY <3>1 DEF GroupInv, PlaceInv, InBatch, InSummary
  <2>3. \A s, t \in summaries' : \A g \in s, h \in t : \A a \in g.alerts \cap h.alerts : s = t
    BY <1>1, <2>2 DEF GroupInv, PlaceInv
  <2>4. QED
    BY <1>1, <2>1, <2>3 DEF GroupInv, PlaceInv
<1>5. QED
  BY <1>2, <1>3, <1>4 DEF GroupInv

LEMMA GroupStep ==
  ASSUME GroupInv, Groups!Next \/ UNCHANGED groupVars
  PROVE  GroupInv'
<1>1. ASSUME UNCHANGED <<alert, groups, batch, summaries>>,
             (scheduler = "sending") <=> (scheduler' = "sending"),
             ticker' = "new" => ticker = "new" /\ scheduler' = scheduler
      PROVE  GroupInv'
  BY <1>1 DEF GroupInv, GroupType, PlaceInv, BoundInv, Waits, InBatch, InSummary,
              Bounded, Timed
<1>2. CASE \E a \in Grouped : Groups!Add(a)
  BY <1>2, GroupsAdd
<1>3. CASE Groups!Flush
  BY <1>3, GroupsFlush
<1>4. CASE Groups!SendAggregatedAlerts
  BY <1>4, GroupsSend
<1>5. CASE Groups!StartFlushScheduler
  BY <1>1, <1>5 DEF Groups!StartFlushScheduler, GroupInv, PlaceInv
<1>6. CASE Groups!Select \/ Groups!Ticked \/ Groups!Done
  <2>1. /\ UNCHANGED <<alert, groups, batch, summaries, ticker>>
        /\ scheduler # "sending" /\ scheduler' # "sending" /\ scheduler # "none"
    BY <1>6 DEF Groups!Select, Groups!Ticked, Groups!Done
  <2>2. ticker # "new"
    BY <2>1 DEF GroupInv, PlaceInv
  <2>3. QED
    BY <1>1, <2>1, <2>2
<1>7. CASE Groups!Tick \/ Groups!Stop \/ UNCHANGED groupVars
  <2>1. /\ UNCHANGED <<alert, groups, batch, summaries, scheduler>>
        /\ ticker' = ticker \/ ticker' = "nil"
    BY <1>7 DEF Groups!Tick, Groups!Stop, groupVars
  <2>2. QED
    BY <1>1, <2>1
<1>8. QED
  BY <1>2, <1>3, <1>4, <1>5, <1>6, <1>7 DEF Groups!Next

\* What the counting of the places and the times of the summaries come to.
LEMMA GroupsKept ==
  ASSUME GroupInv
  PROVE  Groups!EachInOnePlace /\ Groups!BoundsExact
<1>1. ASSUME NEW S, \A x, y \in S : x = y
      PROVE  Groups!Cardinality(S) = IF S = {} THEN 0 ELSE 1
  <2>1. Groups!Cardinality(S) = Cardinality(S)
    BY DEF Groups!Cardinality, Cardinality
  <2>2. CASE S = {}
    BY <2>1, <2>2, FS_EmptySet
  <2>3. CASE S # {}
    <3>1. PICK x \in S : S = {x}
      BY <1>1, <2>3
    <3>2. QED
      BY <2>1, <2>3, <3>1, FS_Singleton
  <2>4. QED
    BY <2>2, <2>3
<1>2. /\ alert \in [Grouped -> [key: Keys, at: StartTimes, added: BOOLEAN]]
      /\ groups \in [Keys -> Group]
      /\ Groups!Live = {groups[k] : k \in {l \in Keys : groups[l].alerts # {}}}
  BY DEF GroupInv, GroupType, Groups!Live
<1>3. ASSUME NEW a \in Grouped
      PROVE  Groups!Cardinality({g \in Groups!Live : a \in g.alerts})
               + Groups!Cardinality({g \in batch : a \in g.alerts})
               + Groups!Cardinality({s \in summaries : \E g \in s : a \in g.alerts})
             = IF alert[a].added THEN 1 ELSE 0
  <2> DEFINE L == {g \in Groups!Live : a \in g.alerts}
             B == {g \in batch : a \in g.alerts}
             S == {s \in summaries : \E g \in s : a \in g.alerts}
  <2>1. /\ \A x, y \in L : x = y
        /\ L # {} <=> Waits(a)
    <3>1. \A x \in L : x = groups[alert[a].key]
      BY <1>2 DEF GroupInv, PlaceInv
    <3>2. Waits(a) => groups[alert[a].key] \in L
      BY <1>2 DEF Waits
    <3>3. QED
      BY <3>1, <3>2 DEF Waits
  <2>2. /\ \A x, y \in B : x = y
        /\ B # {} <=> InBatch(a)
    BY DEF GroupInv, PlaceInv, InBatch
  <2>3. /\ \A x, y \in S : x = y
        /\ S # {} <=> InSummary(a)
    BY DEF GroupInv, PlaceInv, InSummary
  <2>4. /\ Groups!Cardinality(L) = IF Waits(a) THEN 1 ELSE 0
        /\ Groups!Cardinality(B) = IF InBatch(a) THEN 1 ELSE 0
        /\ Groups!Cardinality(S) = IF InSummary(a) THEN 1 ELSE 0
    <3> HIDE DEF L, B, S
    <3>1. QED
      BY <1>1, <2>1, <2>2, <2>3
  <2>5. QED
    BY <2>4 DEF GroupInv, PlaceInv
<1>4. ASSUME NEW g \in UNION ({Groups!Live, batch} \cup summaries)
      PROVE  LET at == {alert[a].at : a \in g.alerts} \ {0}
             IN at # {} => g.first = Groups!Min(at) /\ g.last = Groups!Max(at)
  <2> DEFINE at == {alert[a].at : a \in g.alerts} \ {0}
  <2>1. g \in Group /\ Bounded(g, alert)
    BY <1>2 DEF GroupInv, GroupType, BoundInv
  <2>2. g.alerts \subseteq Grouped /\ \A a \in Grouped : alert[a].at \in Nat
    BY <1>2, <2>1, AlertsAssumption DEF Group
  <2>3. /\ \A x \in at : x \in Nat /\ \E a \in Timed(g, alert) : x = alert[a].at
        /\ \A a \in Timed(g, alert) : alert[a].at \in at
    BY <2>2 DEF Timed
  <2>4. ASSUME at # {}
        PROVE  /\ g.first \in at /\ g.last \in at
               /\ \A x \in at : g.first <= x /\ x <= g.last
    <3> HIDE DEF at
    <3>1. QED
      BY <2>1, <2>3, <2>4 DEF Bounded
  <2>5. ASSUME at # {} PROVE g.first = Groups!Min(at) /\ g.last = Groups!Max(at)
    <3> HIDE DEF at
    <3>1. Groups!Min(at) \in at /\ \A y \in at : Groups!Min(at) <= y
      BY <2>3, <2>4, <2>5 DEF Groups!Min
    <3>2. Groups!Max(at) \in at /\ \A y \in at : Groups!Max(at) >= y
      BY <2>3, <2>4, <2>5 DEF Groups!Max
    <3>3. QED
      BY <2>3, <2>4, <2>5, <3>1, <3>2
  <2>6. QED
    BY <2>5
<1>5. QED
  BY <1>3, <1>4 DEF Groups!EachInOnePlace, Groups!BoundsExact

-----------------------------------------------------------------------------
(* The stores.                                                              *)

KeptRow == [status: Stores!Statuses, at: 0..StoreTime]
Idle == [phase |-> "idle"]
Saving == [phase: {"read", "write", "insert", "update"}, of: Fingerprints,
           status: Stores!Statuses, alone: BOOLEAN]
Ranging == [phase: {"range"}, cutoff: Nat, left: SUBSET Fingerprints]
Deleting == [phase: {"delete"}, cutoff: Nat, left: SUBSET Fingerprints,
             found: Fingerprints]

StoreType ==
  /\ storeNow \in 0..StoreTime
  /\ rows \in [Fingerprints -> KeptRow \cup {NoAlert}]
  /\ save \in [Savers -> Saving \cup {Idle}]
  /\ cleaner \in {Idle} \cup Ranging \cup Deleting
  /\ quiet \in [Fingerprints -> Stores!Statuses \cup {"unsure"}]

\* A Save that met nobody is the only one of its alert, no clean-up runs, and
\* what it saw of the row still holds.
Alone(h) ==
  save[h] # Idle /\ save[h].alone =>
    /\ cleaner = Idle
    /\ \A g \in Savers : g # h /\ save[g] # Idle => save[g].of # save[h].of
    /\ save[h].phase = "insert" => rows[save[h].of] = NoAlert
    /\ save[h].phase = "update" => rows[save[h].of] # NoAlert

\* An alert whose last Save met nobody is not being saved, has the status of that
\* Save, and the clean-up has not picked it while it fires.
Settled(f) ==
  quiet[f] # "unsure" =>
    /\ \A h \in Savers : save[h] # Idle => save[h].of # f
    /\ quiet[f] = "firing" => /\ rows[f] # NoAlert /\ rows[f].status = "firing"
                              /\ cleaner.phase = "delete" => cleaner.found # f
    /\ quiet[f] = "resolved" => rows[f] = NoAlert \/ rows[f].status = "resolved"

StoreInv ==
  /\ StoreType
  /\ \A h \in Savers : Alone(h)
  /\ \A f \in Fingerprints : Settled(f)

LEMMA StoreSteps ==
  ASSUME part = "stores", [AlertsNext]_allVars
  PROVE  part' = part /\ (Stores!Next \/ UNCHANGED storeVars)
BY DEF AlertsNext, allVars

LEMMA StoreStart ==
  ASSUME AlertsInit, part = "stores"
  PROVE  StoreInv
<1>1. Stores!Init
  BY DEF AlertsInit
<1>2. /\ rows = [f \in Fingerprints |-> NoAlert] /\ storeNow = 0
      /\ save = [h \in Savers |-> Idle] /\ cleaner = Idle
      /\ quiet = [f \in Fingerprints |-> "unsure"]
  BY <1>1 DEF Stores!Init, Stores!Idle, Idle
<1>3. 0 \in 0..StoreTime
  BY AlertsAssumption
<1>4. QED
  BY <1>2, <1>3 DEF StoreInv, StoreType, Alone, Settled

\* Time passes, a Save begins.
LEMMA StoreTimeStep ==
  ASSUME StoreInv, Stores!Time
  PROVE  StoreInv'
<1>1. /\ storeNow' \in 0..StoreTime
      /\ UNCHANGED <<rows, save, cleaner, quiet>>
  BY AlertsAssumption DEF StoreInv, StoreType, Stores!Time
<1>2. QED
  BY <1>1 DEF StoreInv, StoreType, Alone, Settled

LEMMA StoreBegin ==
  ASSUME StoreInv, NEW h \in Savers, NEW f \in Fingerprints, NEW status \in Stores!Statuses,
         Stores!BeginSave(h, f, status)
  PROVE  StoreInv'
<1> DEFINE new == [phase |-> IF kind = "memory" THEN "write" ELSE "read", of |-> f,
                   status |-> status, alone |-> ~Stores!Meets(f)]
<1>1. /\ save[h] = Idle
      /\ save' = [g \in Savers |->
           IF g = h THEN new
           ELSE IF save[g] # Idle /\ save[g].of = f THEN [save[g] EXCEPT !.alone = FALSE]
           ELSE save[g]]
      /\ quiet' = [quiet EXCEPT ![f] = "unsure"]
      /\ UNCHANGED <<rows, storeNow, cleaner>>
  BY DEF Stores!BeginSave, Stores!Idle, Idle
<1>2. new \in Saving /\ new # Idle /\ new.of = f /\ new.alone = ~Stores!Meets(f)
      /\ new.phase \notin {"insert", "update"}
  BY DEF Saving, Idle
<1>3. \A g \in Savers : save[g] # Idle => save[g] \in Saving
  BY DEF StoreInv, StoreType
<1>4. \A s \in Saving : /\ [s EXCEPT !.alone = FALSE] \in Saving
                        /\ [s EXCEPT !.alone = FALSE].of = s.of
                        /\ [s EXCEPT !.alone = FALSE].phase = s.phase
                        /\ [s EXCEPT !.alone = FALSE].alone = FALSE
                        /\ s # Idle
  <2> TAKE s \in Saving
  <2>1. s # Idle
    <3>1. s.phase # Idle.phase
      BY DEF Saving, Idle
    <3>2. QED
      BY <3>1
  <2>2. [s EXCEPT !.alone = FALSE] \in Saving
    BY DEF Saving
  <2>3. QED
    BY <2>1, <2>2 DEF Saving
<1>5. \A g \in Savers : g # h =>
        IF save[g] = Idle THEN save'[g] = Idle
        ELSE /\ save'[g] \in Saving /\ save'[g].of = save[g].of
             /\ save'[g].phase = save[g].phase
             /\ save'[g].alone => save[g].alone /\ save[g].of # f
  BY <1>1, <1>3, <1>4
<1>6. save'[h] = new
  BY <1>1
<1> HIDE DEF new
<1>7. StoreType'
  BY <1>1, <1>2, <1>5, <1>6 DEF StoreInv, StoreType
<1>8. ASSUME NEW g \in Savers PROVE Alone(g)'
  <2>1. CASE g = h
    <3>1. Stores!Meets(f) \/ (cleaner = Idle
                              /\ \A i \in Savers : save[i] # Idle => save[i].of # f)
      BY DEF Stores!Meets, Stores!Idle, Idle
    <3>2. QED
      BY <1>1, <1>2, <1>5, <1>6, <2>1, <3>1 DEF Alone
  <2>2. CASE g # h
    BY <1>1, <1>2, <1>5, <1>6, <2>2 DEF Alone, StoreInv
  <2>3. QED
    BY <2>1, <2>2
<1>9. ASSUME NEW e \in Fingerprints PROVE Settled(e)'
  <2>1. CASE e = f
    BY <1>1, <2>1 DEF Settled, StoreInv, StoreType
  <2>2. CASE e # f
    <3>1. quiet'[e] = quiet[e]
      BY <1>1, <2>2
    <3>2. QED
      BY <1>1, <1>2, <1>5, <1>6, <2>2, <3>1 DEF Settled, StoreInv
  <2>3. QED
    BY <2>1, <2>2
<1>10. QED
  BY <1>7, <1>8, <1>9 DEF StoreInv

\* A Save that is under way, and what becomes of it when a clean-up disturbs it.
LEMMA SavingFacts ==
  ASSUME StoreType, NEW h \in Savers
  PROVE  /\ save[h].phase # "idle" => save[h] # Idle
         /\ save[h] # Idle => save[h] \in Saving /\ save[h].phase # "idle"
         /\ save[h] # Idle => [save[h] EXCEPT !.alone = FALSE] \in Saving
                              /\ [save[h] EXCEPT !.alone = FALSE] # Idle
         /\ Idle \notin Saving
<1>1. \A s \in Saving : s.phase # "idle" /\ s # Idle
  <2>1. \A s \in Saving : s.phase # Idle.phase
    BY DEF Saving, Idle
  <2>2. QED
    BY <2>1 DEF Idle
<1>2. \A s \in Saving : [s EXCEPT !.alone = FALSE] \in Saving
  BY DEF Saving
<1>3. Idle.phase = "idle"
  BY DEF Idle
<1>4. QED
  BY <1>1, <1>2, <1>3 DEF StoreType

LEMMA DisturbedFacts ==
  ASSUME StoreType
  PROVE  \A h \in Savers :
           /\ Stores!Disturbed[h] \in Saving \cup {Idle}
           /\ Stores!Disturbed[h] = Idle <=> save[h] = Idle
           /\ save[h] # Idle => /\ Stores!Disturbed[h].of = save[h].of
                                /\ Stores!Disturbed[h].alone = FALSE
<1>1. ASSUME NEW h \in Savers
      PROVE  Stores!Disturbed[h] = IF save[h] = Idle THEN Idle
                                   ELSE [save[h] EXCEPT !.alone = FALSE]
  BY DEF Stores!Disturbed, Stores!Idle, Idle
<1>2. \A s \in Saving : [s EXCEPT !.alone = FALSE].of = s.of
                        /\ [s EXCEPT !.alone = FALSE].alone = FALSE
  BY DEF Saving
<1>3. QED
  BY <1>1, <1>2, SavingFacts

LEMMA StoreFirst ==
  ASSUME StoreInv, NEW h \in Savers, Stores!First(h)
  PROVE  StoreInv'
<1>1. /\ save[h].phase = "read"
      /\ save' = [save EXCEPT ![h].phase =
                    IF rows[save[h].of] = NoAlert THEN "insert" ELSE "update"]
      /\ UNCHANGED <<rows, storeNow, cleaner, quiet>>
  BY DEF Stores!First
<1>2. save[h] \in Saving /\ save[h] # Idle
  BY <1>1, SavingFacts DEF StoreInv
<1>3. /\ save'[h] \in Saving /\ save'[h].of = save[h].of /\ save'[h].alone = save[h].alone
      /\ save'[h].phase = IF rows[save[h].of] = NoAlert THEN "insert" ELSE "update"
      /\ \A g \in Savers : g # h => save'[g] = save[g]
      /\ save' \in [Savers -> Saving \cup {Idle}]
  BY <1>1, <1>2 DEF StoreInv, StoreType, Saving
<1>4. StoreType'
  BY <1>1, <1>3 DEF StoreInv, StoreType
<1>5. \A g \in Savers : Alone(g)'
  BY <1>1, <1>2, <1>3 DEF StoreInv, Alone
<1>6. \A f \in Fingerprints : Settled(f)'
  BY <1>1, <1>2, <1>3 DEF StoreInv, Settled
<1>7. QED
  BY <1>4, <1>5, <1>6 DEF StoreInv

LEMMA StoreWrite ==
  ASSUME StoreInv, NEW h \in Savers, Stores!Write(h)
  PROVE  StoreInv'
<1> DEFINE f == save[h].of
           w == [status |-> save[h].status, at |-> storeNow]
<1>1. /\ save[h].phase \in {"write", "insert", "update"}
      /\ rows' = [rows EXCEPT ![f] = Stores!Stored(h)]
      /\ quiet' = [quiet EXCEPT ![f] = IF save[h].alone THEN save[h].status ELSE "unsure"]
      /\ save' = [save EXCEPT ![h] = Idle]
      /\ UNCHANGED <<storeNow, cleaner>>
  BY DEF Stores!Write, Stores!Idle, Idle
<1>2. save[h] \in Saving /\ save[h] # Idle
  BY <1>1, SavingFacts DEF StoreInv
<1>3. f \in Fingerprints /\ save[h].status \in Stores!Statuses /\ save[h].alone \in BOOLEAN
  BY <1>2 DEF Saving
<1>4. w \in KeptRow /\ w.status = save[h].status /\ w # NoAlert
  BY <1>3, AlertsAssumption DEF StoreInv, StoreType, KeptRow
<1>5. Stores!Stored(h) = IF \/ save[h].phase = "write"
                            \/ save[h].phase = "insert" /\ rows[f] = NoAlert
                            \/ save[h].phase = "update" /\ rows[f] # NoAlert
                         THEN w ELSE rows[f]
  BY <1>1 DEF Stores!Stored, Stores!Written
<1>6. save[h].alone => Stores!Stored(h) = w
  BY <1>1, <1>2, <1>5 DEF StoreInv, Alone
<1>7. /\ save'[h] = Idle /\ \A g \in Savers : g # h => save'[g] = save[g]
      /\ rows'[f] = Stores!Stored(h)
      /\ \A e \in Fingerprints : e # f => rows'[e] = rows[e] /\ quiet'[e] = quiet[e]
      /\ quiet'[f] = IF save[h].alone THEN save[h].status ELSE "unsure"
  BY <1>1, <1>3 DEF StoreInv, StoreType
<1> HIDE DEF f, w
<1>8. StoreType'
  <2>1. Stores!Stored(h) \in KeptRow \cup {NoAlert}
    BY <1>3, <1>4, <1>5 DEF StoreInv, StoreType
  <2>2. QED
    BY <1>1, <1>3, <2>1 DEF StoreInv, StoreType
<1>9. ASSUME NEW g \in Savers PROVE Alone(g)'
  <2>1. CASE g = h
    BY <1>7, <2>1 DEF Alone
  <2>2. CASE g # h /\ save[g] # Idle /\ save[g].alone
    <3>1. save[g].of # f
      BY <1>2, <2>2 DEF StoreInv, Alone, f
    <3>2. save[g].of \in Fingerprints
      BY <2>2 DEF StoreInv, StoreType, Saving
    <3>3. rows'[save[g].of] = rows[save[g].of]
      BY <1>7, <3>1, <3>2
    <3>4. QED
      BY <1>1, <1>7, <2>2, <3>3 DEF StoreInv, Alone
  <2>3. QED
    BY <1>7, <2>1, <2>2 DEF Alone
<1>10. ASSUME NEW e \in Fingerprints PROVE Settled(e)'
  <2>1. CASE e # f
    BY <1>1, <1>7, <2>1 DEF StoreInv, Settled
  <2>2. CASE e = f /\ save[h].alone
    <3>1. cleaner = Idle /\ \A g \in Savers : g # h /\ save[g] # Idle => save[g].of # f
      BY <1>2, <2>2 DEF StoreInv, Alone, f
    <3>2. cleaner.phase # "delete"
      BY <3>1 DEF Idle
    <3>3. rows'[f] = w
      BY <1>6, <1>7, <2>2
    <3>4. QED
      BY <1>1, <1>4, <1>7, <2>2, <3>1, <3>2, <3>3 DEF Settled
  <2>3. CASE e = f /\ ~save[h].alone
    BY <1>3, <1>7, <2>3 DEF Settled
  <2>4. QED
    BY <1>3, <2>1, <2>2, <2>3
<1>11. QED
  BY <1>8, <1>9, <1>10 DEF StoreInv

LEMMA StoreFails ==
  ASSUME StoreInv, NEW h \in Savers, Stores!SaveFails(h)
  PROVE  StoreInv'
<1>1. /\ save' = [save EXCEPT ![h] = Idle]
      /\ UNCHANGED <<rows, storeNow, cleaner, quiet>>
  BY DEF Stores!SaveFails, Stores!Idle, Idle
<1>2. save'[h] = Idle /\ \A g \in Savers : g # h => save'[g] = save[g]
  BY <1>1 DEF StoreInv, StoreType
<1>3. StoreType'
  BY <1>1 DEF StoreInv, StoreType
<1>4. QED
  BY <1>1, <1>2, <1>3 DEF StoreInv, Alone, Settled

\* The clean-ups disturb every Save that is under way.
LEMMA StoreCleanTable ==
  ASSUME StoreInv, Stores!CleanTable
  PROVE  StoreInv'
<1>1. /\ rows' = [f \in Fingerprints |->
                    IF Stores!Expired(f, storeNow - Retention) THEN NoAlert ELSE rows[f]]
      /\ save' = Stores!Disturbed
      /\ UNCHANGED <<storeNow, cleaner, quiet>>
  BY DEF Stores!CleanTable
<1>2. \A f \in Fingerprints :
        \/ rows'[f] = rows[f]
        \/ rows'[f] = NoAlert /\ rows[f].status = "resolved"
  BY <1>1 DEF Stores!Expired
<1>3. save' \in [Savers -> Saving \cup {Idle}]
  BY <1>1, DisturbedFacts DEF StoreInv, Stores!Disturbed
<1>4. StoreType'
  BY <1>1, <1>2, <1>3 DEF StoreInv, StoreType
<1>5. \A g \in Savers : Alone(g)'
  BY <1>1, DisturbedFacts DEF StoreInv, Alone
<1>6. \A f \in Fingerprints : Settled(f)'
  <2>1. \A h \in Savers : save'[h] # Idle => save[h] # Idle /\ save'[h].of = save[h].of
    BY <1>1, DisturbedFacts DEF StoreInv
  <2>2. QED
    BY <1>1, <1>2, <2>1 DEF StoreInv, Settled
<1>7. QED
  BY <1>4, <1>5, <1>6 DEF StoreInv

LEMMA StoreBeginRange ==
  ASSUME StoreInv, Stores!BeginRange
  PROVE  StoreInv'
<1>1. /\ cleaner' = [phase |-> "range", cutoff |-> storeNow - Retention, left |-> Fingerprints]
      /\ save' = Stores!Disturbed /\ storeNow >= Retention
      /\ UNCHANGED <<rows, storeNow, quiet>>
  BY DEF Stores!BeginRange
<1>2. storeNow - Retention \in Nat
  BY <1>1, AlertsAssumption DEF StoreInv, StoreType
<1>3. cleaner' \in Ranging /\ cleaner'.phase = "range"
  BY <1>1, <1>2 DEF Ranging
<1>4. save' \in [Savers -> Saving \cup {Idle}]
  BY <1>1, DisturbedFacts DEF StoreInv, Stores!Disturbed
<1>5. StoreType'
  BY <1>1, <1>3, <1>4 DEF StoreInv, StoreType
<1>6. \A g \in Savers : Alone(g)'
  BY <1>1, DisturbedFacts DEF StoreInv, Alone
<1>7. \A f \in Fingerprints : Settled(f)'
  <2>1. \A h \in Savers : save'[h] # Idle => save[h] # Idle /\ save'[h].of = save[h].of
    BY <1>1, DisturbedFacts DEF StoreInv
  <2>2. QED
    BY <1>1, <1>3, <2>1 DEF StoreInv, Settled
<1>8. QED
  BY <1>5, <1>6, <1>7 DEF StoreInv

\* The clean-up ranges over the map: it picks what is resolved, deletes it, ends.
LEMMA StoreRange ==
  ASSUME StoreInv, (\E f \in Fingerprints : Stores!Visit(f)) \/ Stores!Delete \/ Stores!EndRange
  PROVE  StoreInv'
<1>1. cleaner # Idle /\ UNCHANGED <<storeNow, save, quiet>>
  BY DEF Stores!Visit, Stores!Delete, Stores!EndRange, Idle
<1>2. \A h \in Savers : save[h] # Idle => ~save[h].alone
  BY <1>1 DEF StoreInv, Alone
<1>3. \A h \in Savers : Alone(h)'
  BY <1>1, <1>2 DEF Alone
<1>4. cleaner \in Ranging \cup Deleting
  BY <1>1 DEF StoreInv, StoreType
<1>5. ASSUME NEW f \in Fingerprints, Stores!Visit(f) PROVE StoreInv'
  <2>1. cleaner \in Ranging /\ rows' = rows
    BY <1>4, <1>5 DEF Stores!Visit, Deleting
  <2>2. CASE Stores!Expired(f, cleaner.cutoff)
    <3>1. cleaner' = [phase |-> "delete", cutoff |-> cleaner.cutoff,
                      left |-> cleaner.left \ {f}, found |-> f]
      BY <1>5, <2>2 DEF Stores!Visit
    <3>2. cleaner' \in Deleting /\ cleaner'.found = f
      BY <2>1, <3>1 DEF Ranging, Deleting
    <3>3. quiet[f] # "firing"
      BY <2>2 DEF Stores!Expired, StoreInv, Settled
    <3>4. QED
      BY <1>1, <1>3, <2>1, <3>2, <3>3 DEF StoreInv, StoreType, Settled
  <2>3. CASE ~Stores!Expired(f, cleaner.cutoff)
    <3>1. cleaner' = [cleaner EXCEPT !.left = @ \ {f}]
      BY <1>5, <2>3 DEF Stores!Visit
    <3>2. cleaner' \in Ranging /\ cleaner'.phase = "range"
      BY <2>1, <3>1 DEF Ranging
    <3>3. QED
      BY <1>1, <1>3, <2>1, <3>2 DEF StoreInv, StoreType, Settled
  <2>4. QED
    BY <2>2, <2>3
<1>6. CASE Stores!Delete
  <2>1. /\ cleaner.phase = "delete"
        /\ rows' = [rows EXCEPT ![cleaner.found] = NoAlert]
        /\ cleaner' = [phase |-> "range", cutoff |-> cleaner.cutoff, left |-> cleaner.left]
    BY <1>6 DEF Stores!Delete
  <2>2. cleaner \in Deleting
    BY <1>4, <2>1 DEF Ranging
  <2>3. cleaner' \in Ranging /\ cleaner'.phase = "range" /\ cleaner.found \in Fingerprints
    BY <2>1, <2>2 DEF Ranging, Deleting
  <2>4. \A f \in Fingerprints : rows'[f] = IF f = cleaner.found THEN NoAlert ELSE rows[f]
    BY <2>1 DEF StoreInv, StoreType
  <2>5. StoreType'
    BY <1>1, <2>1, <2>3 DEF StoreInv, StoreType
  <2>6. \A f \in Fingerprints : Settled(f)'
    BY <1>1, <2>1, <2>3, <2>4 DEF StoreInv, Settled
  <2>7. QED
    BY <1>3, <2>5, <2>6 DEF StoreInv
<1>7. CASE Stores!EndRange
  <2>1. cleaner' = Idle /\ rows' = rows
    BY <1>7 DEF Stores!EndRange, Stores!Idle, Idle
  <2>2. cleaner'.phase # "delete"
    BY <2>1 DEF Idle
  <2>3. QED
    BY <1>1, <1>3, <2>1, <2>2 DEF StoreInv, StoreType, Settled
<1>8. QED
  BY <1>5, <1>6, <1>7

LEMMA StoreStep ==
  ASSUME StoreInv, Stores!Next \/ UNCHANGED storeVars
  PROVE  StoreInv'
<1>1. CASE UNCHANGED storeVars
  BY <1>1 DEF storeVars, StoreInv, StoreType, Alone, Settled
<1>2. CASE Stores!Next
  BY <1>2, StoreTimeStep, StoreBegin, StoreFirst, StoreWrite, StoreFails, StoreCleanTable,
     StoreBeginRange, StoreRange DEF Stores!Next
<1>3. QED
  BY <1>1, <1>2

\* What the invariant says of a Save that is over.
LEMMA StoresKept ==
  ASSUME StoreInv
  PROVE  Stores!SavedIsFound
BY DEF StoreInv, Settled, Stores!SavedIsFound

\* No alert gets lost: one that was added is in the groups, the batch or one
\* summary, whose times are those of its earliest and latest alert
\* (aggregator.go:67-123); one that was saved is found until it is resolved and
\* old, in either store (storage.go, pg_storage.go).
THEOREM NoAlertEverLost == AlertsSpec => []AlertsKept
<1> DEFINE Inv == (part = "groups" => GroupInv) /\ (part = "stores" => StoreInv)
<1>1. AlertsInit => Inv
  BY GroupStart, StoreStart
<1>2. Inv /\ [AlertsNext]_allVars => Inv'
  <2> SUFFICES ASSUME Inv, [AlertsNext]_allVars PROVE Inv'
    OBVIOUS
  <2>1. part' = part
    BY DEF AlertsNext, allVars
  <2>2. ASSUME part = "groups" PROVE GroupInv'
    BY <2>2, GroupSteps, GroupStep
  <2>3. ASSUME part = "stores" PROVE StoreInv'
    BY <2>3, StoreSteps, StoreStep
  <2>4. QED
    BY <2>1, <2>2, <2>3
<1>3. Inv => AlertsKept
  BY GroupsKept, StoresKept DEF AlertsKept
<1> HIDE DEF Inv
<1>4. QED
  BY <1>1, <1>2, <1>3, PTL DEF AlertsSpec, allVars

-----------------------------------------------------------------------------
(* Routing and notices.                                                     *)

Owner(n) == n.teams = {incoming.owner} /\ n.severity = incoming.severity
Lower(n) == n.severity = Routes!Downgraded(incoming.severity)

\* Each affected team is named in a notice that was tried or is still to be tried.
Covered(notices, done) ==
  \A t : t \in Routes!Affected <=> t \in done \/ \E n \in notices : t \in n.teams

RouteInv ==
  /\ incoming.severity \in {"critical", "error", "info"}
  /\ stage # "route" => /\ routing.severity = incoming.severity
                        /\ Covered(routing.notices, {})
                        /\ \A n \in routing.notices : Lower(n)
  /\ stage \notin {"stakeholders", "done"} => told = {}
  /\ stage # "stakeholders" /\ told = {} => tried = {}
  /\ stage = "stakeholders" =>
       told # {} /\ Covered(asked, tried) /\ asked \subseteq routing.notices
  /\ stage = "done" /\ told # {} => tried = Routes!Affected
  /\ told # {} => \E n \in told : Owner(n)
  /\ \A n \in told : Owner(n) \/ Lower(n)

LEMMA RouteSteps ==
  ASSUME part = "routes", [AlertsNext]_allVars
  PROVE  part' = part /\ (Routes!Next \/ UNCHANGED routeVars)
BY DEF AlertsNext, allVars

LEMMA RouteStart ==
  ASSUME AlertsInit, part = "routes"
  PROVE  RouteInv
<1>1. Routes!Init
  BY DEF AlertsInit
<1>2. incoming.severity \in {"critical", "error", "info"}
  BY <1>1 DEF Routes!Init, Routes!Alert, Routes!Severities
<1>3. stage = "route" /\ told = {} /\ tried = {}
  BY <1>1 DEF Routes!Init
<1>4. QED
  BY <1>2, <1>3 DEF RouteInv

\* The notices, one for each team or one for many, name the affected teams.
LEMMA NoticesCover ==
  /\ Covered(Routes!Notices(Routes!Affected), {})
  /\ \A n \in Routes!Notices(Routes!Affected) : Lower(n)
<1> DEFINE A == Routes!Affected
<1>1. CASE Routes!Cardinality(A) >= Many
  <2>1. Routes!Notices(A)
          = {[teams |-> A, severity |-> Routes!Downgraded(incoming.severity),
              receiver |-> "default"]}
    BY <1>1 DEF Routes!Notices
  <2>2. QED
    BY <2>1 DEF Covered, Lower
<1>2. CASE ~(Routes!Cardinality(A) >= Many)
  <2>1. Routes!Notices(A) = {Routes!Notice(t) : t \in A}
    BY <1>2 DEF Routes!Notices
  <2>2. \A t \in A : Routes!Notice(t).teams = {t} /\ Lower(Routes!Notice(t))
    BY DEF Routes!Notice, Lower
  <2>3. QED
    BY <2>1, <2>2 DEF Covered
<1>3. QED
  BY <1>1, <1>2

\* A notice is tried, whatever becomes of it.
LEMMA NoticeTried ==
  ASSUME RouteInv, NEW n \in asked,
         Routes!StakeholderFails(n) \/ Routes!NotifyStakeholder(n)
  PROVE  RouteInv'
<1>1. /\ stage = "stakeholders" /\ stage' = stage
      /\ asked' = asked \ {n} /\ tried' = tried \cup n.teams
      /\ UNCHANGED <<incoming, config, routing>>
      /\ told' = told \/ told' = told \cup {n}
  BY DEF Routes!StakeholderFails, Routes!NotifyStakeholder, Routes!Left
<1>2. Covered(asked', tried') /\ Lower(n)
  BY <1>1 DEF RouteInv, Covered
<1>3. Routes!Affected' = Routes!Affected
  BY <1>1 DEF Routes!Affected
<1>4. Covered(asked, tried)'
  BY <1>2, <1>3 DEF Covered
<1>5. Covered(routing.notices, {})'
  BY <1>1, <1>3 DEF Covered, RouteInv
<1>6. (\A m : Owner(m)' <=> Owner(m)) /\ (\A m : Lower(m)' <=> Lower(m))
  BY <1>1 DEF Owner, Lower, Routes!Downgraded
<1>7. QED
  BY <1>1, <1>2, <1>4, <1>5, <1>6 DEF RouteInv

LEMMA RouteStep ==
  ASSUME RouteInv, Routes!Next \/ UNCHANGED routeVars
  PROVE  RouteInv'
<1>1. UNCHANGED <<incoming, config>>
  BY DEF routeVars, Routes!Next, Routes!Route, Routes!Save, Routes!Disabled, Routes!OwnerFails,
         Routes!NotifyOwner, Routes!StakeholderFails, Routes!NotifyStakeholder,
         Routes!Returned
<1>2. Routes!Affected' = Routes!Affected
  BY <1>1 DEF Routes!Affected
<1>3. \A s, d : Covered(s, d)' <=> Covered(s, d)
  BY <1>2 DEF Covered
<1>4. (\A m : Owner(m)' <=> Owner(m)) /\ (\A m : Lower(m)' <=> Lower(m))
  BY <1>1 DEF Owner, Lower, Routes!Downgraded
<1>5. CASE UNCHANGED routeVars
  BY <1>2, <1>3, <1>4, <1>5 DEF routeVars, RouteInv
<1>6. CASE Routes!Route
  <2>1. /\ stage = "route" /\ stage' = "save"
        /\ routing'.severity = incoming.severity
        /\ routing'.notices = Routes!Notices(Routes!Affected)
        /\ UNCHANGED <<asked, tried, told>>
    BY <1>6 DEF Routes!Route
  <2>2. Covered(routing'.notices, {}) /\ \A n \in routing'.notices : Lower(n)
    BY <2>1, NoticesCover
  <2>3. QED
    BY <1>1, <1>2, <1>3, <1>4, <2>1, <2>2 DEF RouteInv
<1>7. CASE Routes!Save \/ Routes!Disabled \/ Routes!OwnerFails
  <2>1. /\ UNCHANGED <<routing, asked, tried, told>>
        /\ stage \in {"save", "notify"} /\ stage' \in {"done", "notify", "failed"}
    BY <1>7 DEF Routes!Save, Routes!Disabled, Routes!OwnerFails
  <2>2. QED
    BY <1>1, <1>2, <1>3, <1>4, <2>1 DEF RouteInv
<1>8. CASE Routes!NotifyOwner
  <2> DEFINE o == [teams |-> {incoming.owner}, receiver |-> routing.receiver,
                   severity |-> routing.severity]
  <2>1. /\ stage = "notify" /\ stage' = "stakeholders"
        /\ told' = told \cup {o}
        /\ asked' = routing.notices /\ UNCHANGED <<routing, tried>>
    BY <1>8 DEF Routes!NotifyOwner
  <2>2. Owner(o) /\ told = {} /\ tried = {}
    BY <2>1 DEF RouteInv, Owner
  <2>3. Covered(asked', tried')
    BY <2>1, <2>2 DEF RouteInv
  <2> HIDE DEF o
  <2>4. QED
    BY <1>1, <1>2, <1>3, <1>4, <2>1, <2>2, <2>3 DEF RouteInv
<1>9. CASE \E n \in asked : Routes!StakeholderFails(n) \/ Routes!NotifyStakeholder(n)
  BY <1>9, NoticeTried
<1>10. CASE Routes!Returned
  <2>1. /\ stage = "stakeholders" /\ asked = {} /\ stage' = "done"
        /\ UNCHANGED <<routing, asked, tried, told>>
    BY <1>10 DEF Routes!Returned
  <2>2. tried = Routes!Affected
    BY <2>1 DEF RouteInv, Covered
  <2>3. QED
    BY <1>1, <1>2, <1>3, <1>4, <2>1, <2>2 DEF RouteInv
<1>11. QED
  BY <1>5, <1>6, <1>7, <1>8, <1>9, <1>10 DEF Routes!Next

\* A notice for a team that is affected is less urgent than the one for the owner.
LEMMA RoutesOrdered ==
  ASSUME RouteInv
  PROVE  Routes!EveryTeamTried /\ Routes!OwnerFirst
<1>1. Routes!EveryTeamTried
  BY DEF RouteInv, Routes!EveryTeamTried
<1>2. /\ Routes!SeverityToInt(Routes!Downgraded(incoming.severity))
             >= Routes!SeverityToInt(incoming.severity)
      /\ incoming.severity # "info" => Routes!Downgraded(incoming.severity) # incoming.severity
  <2>1. CASE incoming.severity = "critical"
    BY <2>1 DEF Routes!SeverityToInt, Routes!Downgraded
  <2>2. CASE incoming.severity = "error"
    BY <2>2 DEF Routes!SeverityToInt, Routes!Downgraded
  <2>3. CASE incoming.severity = "info"
    BY <2>3 DEF Routes!SeverityToInt, Routes!Downgraded
  <2>4. QED
    BY <2>1, <2>2, <2>3 DEF RouteInv
<1>3. QED
  BY <1>1, <1>2 DEF RouteInv, Owner, Lower, Routes!OwnerFirst

\* Each affected team is named in a notice that was tried, and none hears of an
\* alert before, or more urgently than, its owner (notifier.go:66-80,
\* router.go:101-138).
THEOREM NoticesAlwaysInOrder == AlertsSpec => []NoticesInOrder
<1> DEFINE Inv == part = "routes" => RouteInv
<1>1. AlertsInit => Inv
  BY RouteStart
<1>2. Inv /\ [AlertsNext]_allVars => Inv'
  <2> SUFFICES ASSUME Inv, [AlertsNext]_allVars PROVE Inv'
    OBVIOUS
  <2>1. part' = part
    BY DEF AlertsNext, allVars
  <2>2. ASSUME part = "routes" PROVE RouteInv'
    BY <2>2, RouteSteps, RouteStep
  <2>3. QED
    BY <2>1, <2>2
<1>3. Inv => NoticesInOrder
  BY RoutesOrdered DEF NoticesInOrder
<1> HIDE DEF Inv
<1>4. QED
  BY <1>1, <1>2, <1>3, PTL DEF AlertsSpec, allVars

-----------------------------------------------------------------------------
(* Enrichment.                                                              *)

Fields == {"phase", "uid", "node", "app", "team", "upstreams", "downstreams",
           "stakeholders", "steady"}
Phases == {"new", "uid", "pod", "store", "business", "calls", "downstreams", "teams", "done"}
Entry == [uid: Uids, node: Nodes \cup {NoName}, at: 0..EnrichTime]

GraphOK ==
  /\ pod \in [Uids -> {"absent", "live", "deleted"}]
  /\ runsOn \in [Uids -> Nodes \cup {NoName}]
  /\ found \subseteq Uids /\ \A u \in Uids : pod[u] = "live" => u \in found
  /\ cacheNow \in 0..EnrichTime
  /\ cache # NoName => /\ cache \in Entry /\ cache.uid \in found
                       /\ cache.node \in {NoName, runsOn[cache.uid]}

\* What one handler knows of its alert: the node is that of the UID, a UID that is
\* to be cached was found, the callers are listed before the teams are read.
Known(x) ==
  /\ DOMAIN x = Fields /\ x.phase \in Phases
  /\ x.uid \in Uids \cup {0} /\ x.node \in Nodes \cup {NoName}
  /\ x.uid # 0 => x.node \in {NoName, runsOn[x.uid]}
  /\ x.phase \in {"new", "uid", "pod"} => x.node = NoName
  /\ x.phase \in {"new", "pod"} => x.uid = 0
  /\ x.phase = "uid" => x.uid # 0
  /\ x.phase = "store" => x.uid \in found
  /\ x.phase \in {"new", "uid", "pod", "store", "business"} => x.app = NoName
  /\ x.phase \in {"downstreams", "teams"} /\ x.steady => x.upstreams = Enrich!Callers(x.app)
  /\ x.phase = "done" /\ x.app # NoName /\ x.steady =>
       x.stakeholders = {team[a] : a \in x.upstreams} \ {x.team}

EnrichInv ==
  /\ GraphOK
  /\ DOMAIN handler = Enrichers
  /\ \A h \in Enrichers : Known(handler[h])

LEMMA EnrichSteps ==
  ASSUME part = "enrich", [AlertsNext]_allVars
  PROVE  part' = part /\ (Enrich!Next \/ UNCHANGED enrichVars)
BY DEF AlertsNext, allVars

LEMMA StartKnown ==
  ASSUME GraphOK
  PROVE  Known(Enrich!Start)
BY DEF Known, Enrich!Start, Fields, Phases

LEMMA EnrichStart ==
  ASSUME AlertsInit, part = "enrich"
  PROVE  EnrichInv
<1>1. Enrich!Init
  BY DEF AlertsInit
<1>2. /\ pod = [u \in Uids |-> IF u = 1 THEN "live" ELSE "absent"]
      /\ runsOn = [u \in Uids |-> NoName]
      /\ cache = NoName /\ cacheNow = 0
      /\ handler = [h \in Enrichers |-> Enrich!Start] /\ found = {1}
  BY <1>1 DEF Enrich!Init
<1>3. GraphOK
  BY <1>2, AlertsAssumption DEF GraphOK
<1>4. QED
  BY <1>2, <1>3, StartKnown DEF EnrichInv

\* A handler goes on to a phase with new values of some fields.
LEMMA GoesFacts ==
  ASSUME EnrichInv, NEW h \in Enrichers, NEW phase, NEW fields, Enrich!Goes(h, phase, fields)
  PROVE  /\ DOMAIN handler' = Enrichers /\ DOMAIN handler'[h] = Fields
         /\ \A g \in Enrichers : g # h => handler'[g] = handler[g]
         /\ handler'[h].phase = phase
         /\ \A f \in Fields \ {"phase"} :
              handler'[h][f] = IF f \in DOMAIN fields THEN fields[f] ELSE handler[h][f]
<1>1. DOMAIN handler = Enrichers /\ DOMAIN handler[h] = Fields
  BY DEF EnrichInv, Known
<1>2. handler' = [handler EXCEPT ![h] = [f \in Fields |->
        IF f = "phase" THEN phase ELSE IF f \in DOMAIN fields THEN fields[f] ELSE handler[h][f]]]
  BY <1>1 DEF Enrich!Goes
<1>3. QED
  BY <1>1, <1>2 DEF Fields

\* A step of a handler in an unchanged graph.
LEMMA OneGoes ==
  ASSUME EnrichInv, NEW h \in Enrichers, GraphOK', Enrich!Same,
         DOMAIN handler' = Enrichers, \A g \in Enrichers : g # h => handler'[g] = handler[g],
         Known(handler'[h])
  PROVE  EnrichInv'
<1>1. UNCHANGED <<pod, runsOn, belongs, team, calls, found>>
  BY DEF Enrich!Same
<1>2. \A x : Known(x)' <=> Known(x)
  BY <1>1 DEF Known, Enrich!Callers
<1>3. \A g \in Enrichers : Known(handler'[g])
  BY DEF EnrichInv
<1>4. \A g \in Enrichers : Known(handler[g])'
  BY <1>2, <1>3
<1>5. QED
  BY <1>4 DEF EnrichInv

LEMMA SameGraph ==
  ASSUME EnrichInv, Enrich!Same, UNCHANGED cache
  PROVE  GraphOK'
BY DEF EnrichInv, GraphOK, Enrich!Same

\* The resource of the alert.
LEMMA ResourceStep ==
  ASSUME EnrichInv, NEW h \in Enrichers,
         \/ \E u \in Uids \cup {0} : Enrich!Begin(h, u)
         \/ Enrich!EnrichByUID(h) \/ Enrich!UidFails(h) \/ Enrich!ReadCache(h)
         \/ Enrich!QueryPod(h) \/ Enrich!PodFails(h)
  PROVE  EnrichInv'
<1> DEFINE x == handler[h]
           y == handler'[h]
<1>1. Enrich!Same /\ UNCHANGED cache
  BY DEF Enrich!Begin, Enrich!EnrichByUID, Enrich!UidFails, Enrich!ReadCache,
         Enrich!QueryPod, Enrich!PodFails
<1>2. GraphOK /\ GraphOK' /\ Known(x)
  BY <1>1, SameGraph DEF EnrichInv
<1>3. ASSUME NEW phase, NEW fields, Enrich!Goes(h, phase, fields), Known(y)
      PROVE  EnrichInv'
  BY <1>1, <1>2, <1>3, GoesFacts, OneGoes
<1>4. ASSUME NEW u \in Uids \cup {0}, Enrich!Begin(h, u) PROVE EnrichInv'
  <2>1. x.phase = "new" /\ Enrich!Goes(h, IF u # 0 THEN "uid" ELSE "pod", [uid |-> u])
    BY <1>4 DEF Enrich!Begin
  <2>2. /\ DOMAIN y = Fields /\ y.phase = IF u # 0 THEN "uid" ELSE "pod"
        /\ y.uid = u /\ y.node = x.node /\ y.app = x.app
    BY <2>1, GoesFacts DEF Fields
  <2>3. Known(y)
    BY <1>2, <2>1, <2>2 DEF Known, Phases
  <2>4. QED
    BY <1>3, <2>1, <2>3
<1>5. CASE Enrich!EnrichByUID(h)
  <2>1. x.phase = "uid" /\ Enrich!Goes(h, "business", [node |-> runsOn[x.uid]])
    BY <1>5 DEF Enrich!EnrichByUID, Enrich!NodeOf
  <2>2. /\ DOMAIN y = Fields /\ y.phase = "business"
        /\ y.uid = x.uid /\ y.node = runsOn[x.uid] /\ y.app = x.app
    BY <2>1, GoesFacts DEF Fields
  <2>3. x.uid \in Uids /\ runsOn[x.uid] \in Nodes \cup {NoName}
    BY <1>2, <2>1 DEF Known, GraphOK
  <2>4. Known(y)
    BY <1>2, <2>1, <2>2, <2>3 DEF Known, Phases
  <2>5. QED
    BY <1>3, <2>1, <2>4
<1>6. CASE Enrich!UidFails(h)
  <2>1. x.phase = "uid" /\ Enrich!Goes(h, "pod", [uid |-> 0])
    BY <1>6 DEF Enrich!UidFails, Enrich!FallbackUid
  <2>2. /\ DOMAIN y = Fields /\ y.phase = "pod"
        /\ y.uid = 0 /\ y.node = x.node /\ y.app = x.app
    BY <2>1, GoesFacts DEF Fields
  <2>3. Known(y)
    BY <1>2, <2>1, <2>2 DEF Known, Phases
  <2>4. QED
    BY <1>3, <2>1, <2>3
<1>7. CASE Enrich!ReadCache(h)
  <2>1. /\ x.phase = "pod" /\ cache # NoName
        /\ Enrich!Goes(h, "store", [uid |-> cache.uid, node |-> cache.node])
    BY <1>7 DEF Enrich!ReadCache
  <2>2. /\ DOMAIN y = Fields /\ y.phase = "store"
        /\ y.uid = cache.uid /\ y.node = cache.node /\ y.app = x.app
    BY <2>1, GoesFacts DEF Fields
  <2>3. /\ cache.uid \in Uids /\ cache.uid \in found /\ cache.node \in Nodes \cup {NoName}
        /\ cache.node \in {NoName, runsOn[cache.uid]}
    BY <1>2, <2>1 DEF GraphOK, Entry
  <2>4. Known(y)
    BY <1>2, <2>1, <2>2, <2>3 DEF Known, Phases
  <2>5. QED
    BY <1>3, <2>1, <2>4
<1>8. CASE Enrich!QueryPod(h)
  <2>1. x.phase = "pod" /\ x.uid = 0
    BY <1>2, <1>8 DEF Enrich!QueryPod, Known
  <2>2. PICK u \in Uids : /\ pod[u] = "live"
                          /\ Enrich!Goes(h, "store", [uid |-> u, node |-> runsOn[u]])
    BY <1>8, <2>1 DEF Enrich!QueryPod, Enrich!NodeOf
  <2>3. /\ DOMAIN y = Fields /\ y.phase = "store"
        /\ y.uid = u /\ y.node = runsOn[u] /\ y.app = x.app
    BY <2>2, GoesFacts DEF Fields
  <2>4. u \in found /\ runsOn[u] \in Nodes \cup {NoName}
    BY <1>2, <2>2 DEF GraphOK
  <2>5. Known(y)
    BY <1>2, <2>1, <2>3, <2>4 DEF Known, Phases
  <2>6. QED
    BY <1>3, <2>2, <2>5
<1>9. CASE Enrich!PodFails(h)
  <2>1. x.phase = "pod" /\ Enrich!Goes(h, "done", <<>>)
    BY <1>9 DEF Enrich!PodFails
  <2>2. /\ DOMAIN y = Fields /\ y.phase = "done"
        /\ y.uid = x.uid /\ y.node = x.node /\ y.app = x.app
    BY <2>1, GoesFacts DEF Fields
  <2>3. Known(y)
    BY <1>2, <2>1, <2>2 DEF Known, Phases
  <2>4. QED
    BY <1>3, <2>1, <2>3
<1>10. QED
  BY <1>4, <1>5, <1>6, <1>7, <1>8, <1>9

\* What was found goes to the cache.
LEMMA CacheStep ==
  ASSUME EnrichInv, NEW h \in Enrichers, Enrich!StoreCache(h)
  PROVE  EnrichInv'
<1> DEFINE x == handler[h]
           y == handler'[h]
<1>1. /\ x.phase = "store" /\ Enrich!Same /\ Enrich!Goes(h, "business", <<>>)
      /\ cache' = [uid |-> x.uid, node |-> x.node, at |-> cacheNow]
  BY DEF Enrich!StoreCache
<1>2. GraphOK /\ Known(x)
  BY DEF EnrichInv
<1>3. /\ DOMAIN y = Fields /\ y.phase = "business"
      /\ y.uid = x.uid /\ y.node = x.node /\ y.app = x.app
  BY <1>1, GoesFacts DEF Fields
<1>4. /\ x.uid \in Uids /\ x.uid \in found /\ x.uid # 0
      /\ x.node \in Nodes \cup {NoName} /\ x.node \in {NoName, runsOn[x.uid]}
  BY <1>1, <1>2, AlertsAssumption DEF GraphOK, Known
<1>5. cache' \in Entry /\ cache'.uid = x.uid /\ cache'.node = x.node
  BY <1>1, <1>2, <1>4 DEF GraphOK, Entry
<1>6. GraphOK'
  BY <1>1, <1>2, <1>4, <1>5 DEF GraphOK, Enrich!Same
<1>7. Known(y)
  BY <1>1, <1>2, <1>3 DEF Known, Phases
<1>8. QED
  BY <1>1, <1>6, <1>7, GoesFacts, OneGoes

\* The application of the alert, the calls and the teams.
LEMMA ApplicationStep ==
  ASSUME EnrichInv, NEW h \in Enrichers,
         \/ Enrich!EnrichFromNode(h) \/ Enrich!ExternalDefault(h)
         \/ \E a \in Apps : \/ Enrich!EnrichFromService(h, a)
                            \/ Enrich!EnrichByNodeAffinity(h, a)
                            \/ Enrich!EnrichByServiceGraph(h, a)
                            \/ Enrich!EnrichByDirectBusinessApp(h, a)
                            \/ Enrich!EnrichFromBusinessLabels(h, a)
         \/ Enrich!Business(h)
  PROVE  EnrichInv'
<1> DEFINE x == handler[h]
           y == handler'[h]
<1>1. GraphOK /\ Known(x)
  BY DEF EnrichInv
<1>2. ASSUME NEW a, NEW t, Enrich!Goes(h, "calls", [app |-> a, team |-> t]),
             Enrich!Same, UNCHANGED cache
      PROVE  EnrichInv'
  <2>1. /\ DOMAIN y = Fields /\ y.phase = "calls" /\ y.uid = x.uid /\ y.node = x.node
    BY <1>2, GoesFacts DEF Fields
  <2>2. Known(y)
    BY <1>1, <2>1 DEF Known, Phases
  <2>3. QED
    BY <1>2, <2>2, SameGraph, GoesFacts, OneGoes
<1>3. ASSUME x.phase \in {"new", "business"}, NEW fields, Enrich!Goes(h, "done", fields),
             \A f \in DOMAIN fields : f = "team", Enrich!Same, UNCHANGED cache
      PROVE  EnrichInv'
  <2>1. /\ DOMAIN y = Fields /\ y.phase = "done" /\ y.uid = x.uid /\ y.node = x.node
        /\ y.app = x.app
    BY <1>3, GoesFacts DEF Fields
  <2>2. Known(y)
    BY <1>1, <1>3, <2>1 DEF Known, Phases
  <2>3. QED
    BY <1>3, <2>2, SameGraph, GoesFacts, OneGoes
<1>4. CASE Enrich!EnrichFromNode(h)
  BY <1>3, <1>4 DEF Enrich!EnrichFromNode
<1>5. CASE Enrich!ExternalDefault(h)
  <2>1. \A f \in DOMAIN [team |-> Enrich!Default] : f = "team"
    OBVIOUS
  <2>2. QED
    BY <1>3, <1>5, <2>1 DEF Enrich!ExternalDefault
<1>6. ASSUME NEW a \in Apps,
             \/ Enrich!EnrichFromService(h, a)
             \/ Enrich!EnrichByNodeAffinity(h, a)
             \/ Enrich!EnrichByServiceGraph(h, a)
             \/ Enrich!EnrichByDirectBusinessApp(h, a)
             \/ Enrich!EnrichFromBusinessLabels(h, a)
      PROVE  EnrichInv'
  BY <1>2, <1>6 DEF Enrich!EnrichFromService, Enrich!EnrichByNodeAffinity,
     Enrich!EnrichByServiceGraph, Enrich!EnrichByDirectBusinessApp,
     Enrich!EnrichFromBusinessLabels, Enrich!EnrichByGraph, Enrich!EnrichByLabels
<1>7. CASE Enrich!Business(h)
  <2>1. CASE belongs[x.uid] = NoName
    BY <1>3, <1>7, <2>1 DEF Enrich!Business
  <2>2. CASE belongs[x.uid] # NoName
    BY <1>2, <1>7, <2>2 DEF Enrich!Business
  <2>3. QED
    BY <2>1, <2>2
<1>8. QED
  BY <1>4, <1>5, <1>6, <1>7

LEMMA TeamsStep ==
  ASSUME EnrichInv, NEW h \in Enrichers,
         \/ Enrich!Upstreams(h) \/ Enrich!Downstreams(h) \/ Enrich!EnrichStakeholders(h)
         \/ Enrich!QueryFails(h) \/ Enrich!NextAlert(h)
  PROVE  EnrichInv'
<1> DEFINE x == handler[h]
           y == handler'[h]
<1>1. Enrich!Same /\ UNCHANGED cache
  BY DEF Enrich!Upstreams, Enrich!Downstreams, Enrich!EnrichStakeholders,
         Enrich!QueryFails, Enrich!NextAlert
<1>2. GraphOK /\ GraphOK' /\ Known(x)
  BY <1>1, SameGraph DEF EnrichInv
<1>3. ASSUME NEW phase, NEW fields, Enrich!Goes(h, phase, fields), Known(y)
      PROVE  EnrichInv'
  BY <1>1, <1>2, <1>3, GoesFacts, OneGoes
<1>4. CASE Enrich!Upstreams(h)
  <2>1. /\ x.phase = "calls"
        /\ Enrich!Goes(h, "downstreams", [upstreams |-> Enrich!Callers(x.app)])
    BY <1>4 DEF Enrich!Upstreams
  <2>2. /\ DOMAIN y = Fields /\ y.phase = "downstreams" /\ y.uid = x.uid /\ y.node = x.node
        /\ y.app = x.app /\ y.upstreams = Enrich!Callers(x.app)
    BY <2>1, GoesFacts DEF Fields
  <2>3. Known(y)
    BY <1>2, <2>2 DEF Known, Phases
  <2>4. QED
    BY <1>3, <2>1, <2>3
<1>5. CASE Enrich!Downstreams(h)
  <2>1. /\ x.phase = "downstreams"
        /\ Enrich!Goes(h, "teams", [downstreams |-> Enrich!Callees(x.app)])
    BY <1>5 DEF Enrich!Downstreams
  <2>2. /\ DOMAIN y = Fields /\ y.phase = "teams" /\ y.uid = x.uid /\ y.node = x.node
        /\ y.app = x.app /\ y.upstreams = x.upstreams /\ y.steady = x.steady
    BY <2>1, GoesFacts DEF Fields
  <2>3. Known(y)
    BY <1>2, <2>1, <2>2 DEF Known, Phases
  <2>4. QED
    BY <1>3, <2>1, <2>3
<1>6. CASE Enrich!EnrichStakeholders(h)
  <2> DEFINE S == Enrich!AffectedTeams(h, Enrich!Callers(x.app))
  <2>1. x.phase = "teams" /\ Enrich!Goes(h, "done", [stakeholders |-> S])
    BY <1>6 DEF Enrich!EnrichStakeholders
  <2>2. /\ DOMAIN y = Fields /\ y.phase = "done" /\ y.uid = x.uid /\ y.node = x.node
        /\ y.upstreams = x.upstreams /\ y.steady = x.steady /\ y.team = x.team
        /\ y.stakeholders = S
    <3> HIDE DEF S
    <3>1. QED
      BY <2>1, GoesFacts DEF Fields
  <2>3. x.steady => S = {team[a] : a \in x.upstreams} \ {x.team}
    BY <1>2, <2>1 DEF Known, Enrich!AffectedTeams
  <2>4. Known(y)
    <3> HIDE DEF S
    <3>1. QED
      BY <1>2, <2>2, <2>3 DEF Known, Phases
  <2>5. QED
    BY <1>3, <2>1, <2>4
<1>7. CASE Enrich!QueryFails(h)
  <2>1. PICK phase \in {"downstreams", "teams", "done"} :
          Enrich!Goes(h, phase, [steady |-> FALSE])
    BY <1>7 DEF Enrich!QueryFails
  <2>2. /\ DOMAIN y = Fields /\ y.phase = phase /\ y.uid = x.uid /\ y.node = x.node
        /\ y.steady = FALSE
    BY <2>1, GoesFacts DEF Fields
  <2>3. Known(y)
    BY <1>2, <2>1, <2>2 DEF Known, Phases
  <2>4. QED
    BY <1>3, <2>1, <2>3
<1>8. CASE Enrich!NextAlert(h)
  <2>1. handler' = [handler EXCEPT ![h] = Enrich!Start] /\ DOMAIN handler = Enrichers
    BY <1>8 DEF Enrich!NextAlert, EnrichInv
  <2>2. /\ DOMAIN handler' = Enrichers /\ y = Enrich!Start
        /\ \A g \in Enrichers : g # h => handler'[g] = handler[g]
    BY <2>1
  <2>3. QED
    BY <1>1, <1>2, <2>2, StartKnown, OneGoes
<1>9. QED
  BY <1>4, <1>5, <1>6, <1>7, <1>8

\* The graph changes under the handlers, and time passes.
LEMMA GraphStep ==
  ASSUME EnrichInv,
         \/ \E u \in Uids, n \in Nodes : Enrich!Schedule(u, n)
         \/ \E u \in Uids : Enrich!Recreate(u)
         \/ \E a, b \in Apps : Enrich!NewCall(a, b)
  PROVE  EnrichInv'
<1>1. handler' = Enrich!Unsteady /\ UNCHANGED <<team, cache, cacheNow>>
  BY DEF Enrich!Schedule, Enrich!Recreate, Enrich!NewCall, Enrich!Change
<1>2. /\ runsOn' \in [Uids -> Nodes \cup {NoName}]
      /\ \A u \in Uids : runsOn[u] # NoName => runsOn'[u] = runsOn[u]
      /\ found \subseteq found' /\ found' \subseteq Uids
      /\ pod' \in [Uids -> {"absent", "live", "deleted"}]
      /\ \A u \in Uids : pod'[u] = "live" => u \in found'
  <2>1. CASE \E u \in Uids, n \in Nodes : Enrich!Schedule(u, n)
    BY <2>1 DEF Enrich!Schedule, EnrichInv, GraphOK
  <2>2. CASE \E u \in Uids : Enrich!Recreate(u)
    BY <2>2 DEF Enrich!Recreate, EnrichInv, GraphOK
  <2>3. CASE \E a, b \in Apps : Enrich!NewCall(a, b)
    BY <2>3 DEF Enrich!NewCall, EnrichInv, GraphOK
  <2>4. QED
    BY <2>1, <2>2, <2>3
<1>3. GraphOK'
  <2>1. cache # NoName => cache.uid \in Uids
    BY DEF EnrichInv, GraphOK, Entry
  <2>2. QED
    BY <1>1, <1>2, <2>1 DEF EnrichInv, GraphOK
<1>4. ASSUME NEW h \in Enrichers PROVE Known(handler[h])'
  <2> DEFINE x == handler[h]
             y == handler'[h]
  <2>1. Known(x)
    BY DEF EnrichInv
  <2>2. y = [x EXCEPT !.steady = FALSE]
    BY <1>1 DEF Enrich!Unsteady
  <2>3. /\ DOMAIN y = Fields /\ y.steady = FALSE
        /\ \A f \in Fields \ {"steady"} : y[f] = x[f]
    BY <2>1, <2>2 DEF Known, Fields
  <2>4. /\ y.phase = x.phase /\ y.uid = x.uid /\ y.node = x.node /\ y.app = x.app
    BY <2>3 DEF Fields
  <2>5. x.uid # 0 => x.uid \in Uids /\ x.node \in {NoName, runsOn'[x.uid]}
    BY <1>2, <2>1 DEF Known
  <2>6. x.phase = "store" => x.uid \in found'
    BY <1>2, <2>1 DEF Known
  <2>7. /\ DOMAIN y = Fields /\ y.phase \in Phases
        /\ y.uid \in Uids \cup {0} /\ y.node \in Nodes \cup {NoName}
        /\ y.uid # 0 => y.node \in {NoName, runsOn'[y.uid]}
        /\ y.phase \in {"new", "uid", "pod"} => y.node = NoName
        /\ y.phase \in {"new", "pod"} => y.uid = 0
        /\ y.phase = "uid" => y.uid # 0
        /\ y.phase = "store" => y.uid \in found'
        /\ y.phase \in {"new", "uid", "pod", "store", "business"} => y.app = NoName
    BY <2>1, <2>3, <2>4, <2>5, <2>6 DEF Known
  <2>8. QED
    BY <2>3, <2>7 DEF Known
<1>5. DOMAIN handler' = Enrichers
  BY <1>1 DEF Enrich!Unsteady
<1>6. QED
  BY <1>3, <1>4, <1>5 DEF EnrichInv

LEMMA ClockStep ==
  ASSUME EnrichInv, Enrich!Time
  PROVE  EnrichInv'
<1>1. /\ cacheNow < EnrichTime /\ cacheNow' = cacheNow + 1
      /\ cache' = NoName \/ cache' = cache
      /\ UNCHANGED <<pod, runsOn, belongs, team, calls, handler, found>>
  BY DEF Enrich!Time
<1>2. GraphOK'
  BY <1>1, AlertsAssumption DEF EnrichInv, GraphOK
<1>3. \A h \in Enrichers : Known(handler[h])'
  BY <1>1 DEF EnrichInv, Known, Enrich!Callers
<1>4. QED
  BY <1>1, <1>2, <1>3 DEF EnrichInv

LEMMA EnrichStep ==
  ASSUME EnrichInv, Enrich!Next \/ UNCHANGED enrichVars
  PROVE  EnrichInv'
<1>1. CASE UNCHANGED enrichVars
  BY <1>1 DEF enrichVars, EnrichInv, GraphOK, Known, Enrich!Callers
<1>2. CASE Enrich!Next
  <2>1. ASSUME NEW h \in Enrichers, Enrich!Step(h) PROVE EnrichInv'
    <3>1. \/ \E u \in Uids \cup {0} : Enrich!Begin(h, u)
          \/ Enrich!EnrichByUID(h) \/ Enrich!UidFails(h) \/ Enrich!ReadCache(h)
          \/ Enrich!QueryPod(h) \/ Enrich!PodFails(h) \/ Enrich!StoreCache(h)
          \/ Enrich!EnrichFromNode(h) \/ Enrich!ExternalDefault(h)
          \/ \E a \in Apps : \/ Enrich!EnrichFromService(h, a)
                             \/ Enrich!EnrichByNodeAffinity(h, a)
                             \/ Enrich!EnrichByServiceGraph(h, a)
                             \/ Enrich!EnrichByDirectBusinessApp(h, a)
                             \/ Enrich!EnrichFromBusinessLabels(h, a)
          \/ Enrich!Business(h)
          \/ Enrich!Upstreams(h) \/ Enrich!Downstreams(h) \/ Enrich!EnrichStakeholders(h)
          \/ Enrich!QueryFails(h) \/ Enrich!NextAlert(h)
      BY <2>1 DEF Enrich!Step
    <3>2. QED
      BY <3>1, ResourceStep, CacheStep, ApplicationStep, TeamsStep
  <2>2. QED
    BY <1>2, <2>1, GraphStep, ClockStep DEF Enrich!Next
<1>3. QED
  BY <1>1, <1>2

LEMMA EnrichedRight ==
  ASSUME EnrichInv
  PROVE  Enrich!CachedWasFound /\ Enrich!NodeOfUid /\ Enrich!StakeholdersAreCallers
BY DEF EnrichInv, GraphOK, Known, Enrich!CachedWasFound, Enrich!NodeOfUid,
       Enrich!StakeholdersAreCallers

\* What enrichment adds is of the graph: the cache of Pods holds only what the
\* graph has held, the node of an alert is that of this very incarnation of its
\* Pod, and the teams to be told are those of the listed callers (enricher.go).
THEOREM EnrichedAlwaysFromGraph == AlertsSpec => []EnrichedFromGraph
<1> DEFINE Inv == part = "enrich" => EnrichInv
<1>1. AlertsInit => Inv
  BY EnrichStart
<1>2. Inv /\ [AlertsNext]_allVars => Inv'
  <2> SUFFICES ASSUME Inv, [AlertsNext]_allVars PROVE Inv'
    OBVIOUS
  <2>1. part' = part
    BY DEF AlertsNext, allVars
  <2>2. ASSUME part = "enrich" PROVE EnrichInv'
    BY <2>2, EnrichSteps, EnrichStep
  <2>3. QED
    BY <2>1, <2>2
<1>3. Inv => EnrichedFromGraph
  BY EnrichedRight DEF EnrichedFromGraph
<1> HIDE DEF Inv
<1>4. QED
  BY <1>1, <1>2, <1>3, PTL DEF AlertsSpec, allVars

=============================================================================
