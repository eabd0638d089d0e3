\* Any subset of the optional parts configured, all of them reachable.
SPECIFICATION Spec
CONSTANTS
  Options = {"kubeconfig", "clusters", "postgres", "stored", "topology", "workloads",
             "traces", "flows", "inspection", "executor", "redis", "prometheus"}
  MaxFaults = 0
INVARIANTS StartsWithoutPostgres
CHECK_DEADLOCK FALSE
