----------------------------- MODULE PodRestart -----------------------------
(* restart_pod and delete_pod of the executor: the cool-down of a Pod's      *)
(* name, its cleaner, the eviction, and the verification that looks for the  *)
(* Pod that replaces it (restartPod, cleanCoolDowns in executor.go,          *)
(* checkNewPodReady in verify.go).                                           *)
EXTENDS Naturals, FiniteSets

CONSTANTS
  Calls,             \* calls of Execute for Pods of one controller
  Replicas,          \* Pods the controller keeps
  Stateful,          \* whether a replacement takes the name of the Pod it replaces
  CoolDown,          \* CoolDownMinutes, in ticks
  CleanAge,          \* the cleaner's maxAge, in ticks
  MaxTime, MaxPods, MaxFaults   \* bounds

VARIABLES
  minute,
  pods,       \* uid -> Pod
  cool,       \* coolDowns: name -> time of the last restart, or Never
  sweep,      \* the cleaner: the name it is about to delete
  call,
  mishaps

vars == <<minute, pods, cool, sweep, call, mishaps>>

Uids == 1..MaxPods
Never == MaxTime + 1
NoUid == 0
Pod(n, ready) == [name |-> n, phase |-> "running", ready |-> ready]
Unborn == [name |-> 0, phase |-> "unborn", ready |-> FALSE]
Fresh == [stage |-> "idle", action |-> "", name |-> 0, uid |-> NoUid, owned |-> FALSE,
          after |-> {}, looked |-> 0, stored |-> 0, swept |-> FALSE, verdict |-> "", others |-> {}]

Init ==
  /\ minute = 0
  /\ pods = [u \in Uids |-> IF u <= Replicas THEN Pod(u, TRUE) ELSE Unborn]
  /\ cool = [n \in Uids |-> Never] /\ sweep = 0
  /\ call = [c \in Calls |-> Fresh] /\ mishaps = 0

Exists(u) == pods[u].phase \in {"running", "terminating"}
Named(n) == {u \in Uids : Exists(u) /\ pods[u].name = n}
At(c, stage) == call[c].stage = stage
Mishap == mishaps < MaxFaults /\ mishaps' = mishaps + 1
Fail(c) == call' = [call EXCEPT ![c].stage = "failed"]

\* snapshotPod: the uid and the selector of the controller; a failed Get gives
\* an empty snapshot.
Snapshot(c, action, n) ==
  /\ At(c, "idle")
  /\ \/ /\ Named(n) # {}
        /\ \E u \in Named(n) : call' = [call EXCEPT ![c] =
             [Fresh EXCEPT !.action = action, !.name = n, !.uid = u, !.owned = TRUE,
                           !.stage = IF action = "restart_pod" THEN "check" ELSE "delete"]]
        /\ UNCHANGED mishaps
     \/ /\ Mishap
        /\ call' = [call EXCEPT ![c] = [Fresh EXCEPT !.action = action, !.name = n,
                      !.stage = IF action = "restart_pod" THEN "check" ELSE "delete"]]
  /\ UNCHANGED <<minute, pods, cool, sweep>>

\* restartPod: the Pod must run and must not have restarted too often; then its
\* cool-down is looked up.
Check(c) ==
  /\ At(c, "check")
  /\ \/ Named(call[c].name) # {} /\ call' = [call EXCEPT ![c].stage = "cool"]
     \/ Fail(c)
  /\ UNCHANGED <<minute, pods, cool, sweep, mishaps>>
Cooling(n) == cool[n] # Never /\ minute - cool[n] < CoolDown
LookUp(c) ==
  /\ At(c, "cool")
  /\ call' = IF Cooling(call[c].name) THEN [call EXCEPT ![c].stage = "failed"]
             ELSE [call EXCEPT ![c].stage = "evict", ![c].looked = minute,
                    ![c].after = {d \in Calls : call[d].stage \in {"verify", "done"}
                                     /\ call[d].action = "restart_pod" /\ call[d].name = call[c].name}]
  /\ UNCHANGED <<minute, pods, cool, sweep, mishaps>>

\* Eviction, and deletion when a budget or an error prevents it.
Evict(c) ==
  /\ call[c].stage \in {"evict", "delete"}
  /\ \E u \in Named(call[c].name) : pods' = [pods EXCEPT ![u].phase = "terminating"]
  /\ call' = [call EXCEPT ![c].stage = IF @ = "evict" THEN "store" ELSE "verify"]
  /\ UNCHANGED <<minute, cool, sweep, mishaps>>
EvictFails(c) ==
  /\ call[c].stage \in {"evict", "delete"} /\ Fail(c)
  /\ IF Named(call[c].name) = {} THEN UNCHANGED mishaps ELSE Mishap
  /\ UNCHANGED <<minute, pods, cool, sweep>>
StoreCool(c) ==
  /\ At(c, "store")
  /\ cool' = [cool EXCEPT ![call[c].name] = minute]
  /\ call' = [call EXCEPT ![c].stage = "verify", ![c].stored = minute,
                          ![c].swept = (sweep = call[c].name)]
  /\ UNCHANGED <<minute, pods, sweep, mishaps>>

\* cleanCoolDowns: the entry that was read too old is deleted, whatever it is by now.
AnyAge(n) == cool[n] # Never
TooOld(n) == cool[n] # Never /\ minute - cool[n] > CleanAge
Sweep(n) ==
  /\ sweep = 0 /\ TooOld(n) /\ sweep' = n
  /\ UNCHANGED <<minute, pods, cool, call, mishaps>>
DropEntry ==
  /\ sweep # 0 /\ cool' = [cool EXCEPT ![sweep] = Never] /\ sweep' = 0
  /\ UNCHANGED <<minute, pods, call, mishaps>>

-----------------------------------------------------------------------------
(* One poll of checkNewPodReady.                                             *)
Others(c) == {u \in Uids : pods[u].phase = "running" /\ u # call[c].uid}
Verified(c, ready) ==
  call' = [call EXCEPT ![c].stage = "done", ![c].verdict = "verified", ![c].others = ready]

\* The name exists: another uid, or one that was never read, counts if it is ready.
AnyUid(c, u) == TRUE
NewUid(c, u) == call[c].uid = NoUid \/ u # call[c].uid
SameName(c) ==
  /\ At(c, "verify")
  /\ \E u \in Named(call[c].name) :
       NewUid(c, u) /\ pods[u].ready /\ Verified(c, {u})
  /\ UNCHANGED <<minute, pods, cool, sweep, mishaps>>
\* The name is gone: the first Pod of the controller in the list that is not
\* being deleted decides.
OtherName(c) ==
  /\ At(c, "verify") /\ Named(call[c].name) = {} /\ call[c].owned
  /\ \E u \in Others(c) : pods[u].ready /\ Verified(c, {u})
  /\ UNCHANGED <<minute, pods, cool, sweep, mishaps>>
GiveUp(c) ==
  /\ At(c, "verify") /\ call' = [call EXCEPT ![c].stage = "done", ![c].verdict = "failed"]
  /\ UNCHANGED <<minute, pods, cool, sweep, mishaps>>

-----------------------------------------------------------------------------
(* The cluster.                                                              *)
Vanish(u) ==
  /\ pods[u].phase = "terminating"
  /\ pods' = [pods EXCEPT ![u].phase = "gone", ![u].ready = FALSE]
  /\ UNCHANGED <<minute, cool, sweep, call, mishaps>>
Replace(u) ==
  /\ pods[u].phase = "unborn" /\ \A v \in Uids : v < u => pods[v].phase # "unborn"
  /\ Cardinality({v \in Uids : pods[v].phase = "running"}) < Replicas
  /\ IF Stateful
     THEN \E v \in Uids : /\ pods[v].phase = "gone" /\ Named(pods[v].name) = {}
                          /\ pods' = [pods EXCEPT ![u] = Pod(pods[v].name, FALSE)]
     ELSE pods' = [pods EXCEPT ![u] = Pod(u, FALSE)]
  /\ UNCHANGED <<minute, cool, sweep, call, mishaps>>
Readiness(u) ==
  /\ pods[u].phase = "running" /\ ~pods[u].ready /\ pods' = [pods EXCEPT ![u].ready = TRUE]
  /\ UNCHANGED <<minute, cool, sweep, call, mishaps>>
Tick ==
  /\ minute < MaxTime /\ minute' = minute + 1
  /\ UNCHANGED <<pods, cool, sweep, call, mishaps>>

Next ==
  \/ \E c \in Calls :
       \/ \E action \in {"restart_pod", "delete_pod"}, n \in Uids : Snapshot(c, action, n)
       \/ Check(c) \/ LookUp(c) \/ Evict(c) \/ EvictFails(c) \/ StoreCool(c)
       \/ SameName(c) \/ OtherName(c) \/ GiveUp(c)
  \/ \E n \in Uids : Sweep(n)
  \/ DropEntry
  \/ \E u \in Uids : Vanish(u) \/ Replace(u) \/ Readiness(u)
  \/ Tick

Spec == Init /\ [][Next]_vars

-----------------------------------------------------------------------------
\* Two restarts of a Pod's name are CoolDown apart, or CleanAge if that is
\* shorter, unless the second looked for the cool-down before the first had
\* stored it, or the cleaner was between reading and deleting the entry.
RestartsSpaced ==
  \A c \in Calls : call[c].stage \in {"store", "verify", "done"} =>
    \A d \in call[c].after : call[d].swept \/
      call[c].looked - call[d].stored >=
        (IF CoolDown < CleanAge THEN CoolDown ELSE CleanAge)

\* A restart or deletion is "verified" only by a Pod that is not the one it
\* removed, unless the snapshot before it had failed.
VerifiedByAnother ==
  \A c \in Calls : (call[c].verdict = "verified" /\ call[c].uid # NoUid) =>
    call[c].uid \notin call[c].others

\* checkNewPodReady is to check that the new Pod is ready after the old one was
\* replaced: a Pod that was there before the call does not count.
VerifiedByReplacement ==
  \A c \in Calls : (call[c].verdict = "verified" /\ call[c].uid # NoUid) =>
    \E u \in call[c].others : u > Replicas
=============================================================================
