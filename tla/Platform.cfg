\* Business applications, edges, impact, searches and lists; inspections, metrics,
\* logins, the command line client, conversations, start-up and shutdown.
SPECIFICATION Spec
CONSTANTS
  AppResources = {"deployment", "pod"}
  Controllers = {"deployment"}
  Apps = {"cart", "shop"}
  Home = "cart"
  AppCalls <- ShopCallsCart
  BlsWorkers = {1, 2}
  MaxAppChanges = 2
  MaxTroubles = 1
  ConfigNames = {"config"}
  EdgeWorkers = {1}
  MaxEdgeChanges = 2
  MaxTurns = 2
  MaxEdgeFaults = 1
  WalkResources = {"root", "a", "b", "c"}
  WalkRoot = "root"
  NonCore = {"c"}
  WalkBatch = 1
  RowLimit = 2
  Hops = 3
  MaxWalkChanges = 1
  CallingApps <- FourApps
  MaxAppCalls = 2
  Nodes = {"a", "b", "c"}
  Types = {"owns"}
  Depths = {1, 2}
  Wanted = {{"a", "b", "c"}, {"b"}}
  MaxJoined = 2
  GoLimit = 1
  MaxMoves = 1
  MaxMishaps = 1
  Queries = {"all", "kinds"}
  Namespaced = {"pod"}
  Clusterwide = {"node"}
  ListRequests = {"r"}
  ListWorkers = {"w1", "w2"}
  MaxListChanges = 2
  MaxListFaults = 1
  RuleNames = {"cert", "quota"}
  Things = {"a", "b"}
  Starters = {"api"}
  Readers = {"h"}
  Threshold = 2
  MaxReports = 2
  MaxRunFaults = 1
  MaxRuleChanges = 1
  MaxRestarts = 1
  Attempts = {"a", "b"}
  PerMinute = 3
  Enough = 2
  Minute = 2
  Quarter = 2
  LoginTime = 3
  MaxLogins = 5
  MaxLoginFaults = 1
  Servers = {"a", "b"}
  Procs = {"p1", "p2"}
  TokenLife = 1
  TokenTime = 1
  MaxRuns = 3
  MaxUpsets = 1
  Options = {"kubeconfig", "clusters", "postgres", "stored", "topology", "workloads",
             "traces", "flows", "inspection", "executor", "redis", "prometheus"}
  MaxOutages = 1
  Objects = {"web", "db"}
  Templates <- PodAndNode
  Configured = FALSE
  EntryLife = 1
  CleanWindow = 2
  MetricTime = 4
  MaxAsks = 2
  MaxBreaks = 1
  Messages = {"m1", "m2"}
  Records = 1
  Consumers = {"c1", "c2"}
  LabelWorkers = {"l"}
  BizRoom = 1
  MaxInformed = 0
  Sessions = {"s"}
  Tabs = {"t1", "t2"}
  MaxEvents = 2
  NoRef = NoRef
  Nothing = Nothing
  NoReport = NoReport
  NoSession = NoSession
INVARIANTS   ListsFresh MetricsSound
INVARIANTS  AccessSound ServerLifeSound
CHECK_DEADLOCK FALSE
