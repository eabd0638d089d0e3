\* Three requests that may carry the same alerts, while alerts grow too old; the
\* parts around the service.
SPECIFICATION AlertsSpec
CONSTANTS
  a1 = a1
  a2 = a2
  a3 = a3
  Alerts = {a1, a2}
  Requests = {r1, r2, r3}
  Apps <- TwoApps
  Namespaces <- OneNamespace
  Names <- SomeNames
  Found <- Calls
  MaxBatch = 1
  WorkerCount = 2
  Window = 0
  MaxAge = 0
  Interval = 0
  MaxDepth = 3
  Horizon = 1
  Faults = FALSE
  Panics = FALSE
  NoAlert = NoAlert
  NoName = NoName
  NotActive = NotActive
  Grouped = {"x", "y", "z"}
  Keys = {"k", "l"}
  StartTimes = {0, 1}
  MaxTicks = 2
  StoreKinds = {"memory", "postgres"}
  Fingerprints = {"f", "g"}
  Savers = {"h1", "h2"}
  Retention = 1
  StoreTime = 3
  MaxSaves = 3
  Teams = {"pay", "ops", "web"}
  ByTeam = {"ops"}
  ByOwner = {"pay"}
  Minimums = {"error", "off"}
  Many = 3
  Uids = {1, 2}
  Nodes = {"n1"}
  AppTeams = {"pay", "web"}
  Enrichers = {"h1"}
  Strategies = {"node_affinity", "service_graph", "direct_business_app", "business_labels"}
  TTL = 1
  EnrichTime = 1
  MaxChanges = 2
INVARIANTS ReplyMeansApplied SuppressedByAnother IndexCoversActive
INVARIANTS AlertsKept  
SYMMETRY AnyRequest
CHECK_DEADLOCK FALSE
