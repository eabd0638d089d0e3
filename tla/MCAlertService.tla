--------------------------- MODULE MCAlertService ---------------------------
(* Instances of AlertService for TLC.                                      *)
EXTENDS AlertService, TLC

CONSTANTS a1, a2, a3

\* Requests differ in nothing but their name.
AnyRequest == Permutations(Requests)

E(kind, name, node, app, downs, exempt) ==
  [kind |-> kind, name |-> name, node |-> node, owner |-> NoName, app |-> app,
   ns |-> "shop", downs |-> downs, exempt |-> exempt]

Bare(kind, name) == E(kind, name, NoName, NoName, {}, FALSE)

OneNamespace == {"shop"}
TwoApps == {"cart", "kafka"}
SomeNames == {"n1", "p1", "p2"}

Cart == E("Pod", "p1", "n1", "cart", {"kafka"}, FALSE)
Kafka == E("Pod", "p2", "n1", "kafka", {}, FALSE)
Critical == E("Pod", "p2", "n1", "cart", {}, TRUE)

\* A caller, and a callee on the same node that may have been relabelled to be
\* a critical Pod of the caller's application.
Calls == [f \in Alerts |-> IF f = a1 THEN {Cart} ELSE {Kafka, Critical}]

\* Nothing is known about the Pods but their names.
Unknown == [f \in Alerts |-> {Bare("Unknown", NoName)}]
=============================================================================
