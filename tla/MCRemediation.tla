--------------------------- MODULE MCRemediation ----------------------------
(* Instances of Remediation for TLC.                                       *)
EXTENDS Remediation, TLC

AnyTask == Permutations(Tasks)

OneAlert == {"oom"}
TwoAlerts == {"oom", "latency"}

\* Every dangerous name a diagnosis may give and one that is not, at the risk
\* that lets most through; "unknown" stands for restart_pod.
DangerousNames ==
  [name: Dangerous \cup {"Delete", "UpdateConfig", "UpdateSecret", "AdjustLimits",
                        "Rollback", "unknown"},
   risk: {"low"}, fixable: {TRUE}, root: {"Pod", "Deployment"}, confident: {TRUE}]

SafeAndDangerousTool == {"restart_pod", "delete_pod"}
=============================================================================
