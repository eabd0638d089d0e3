\* One request with more alerts than workers; deleted conversations, the shutdown,
\* rounds of tool calls and terminal sessions, under fairness.
SPECIFICATION ProgressSpec
CONSTANTS
  a1 = a1
  a2 = a2
  a3 = a3
  Alerts = {a1, a2, a3}
  Requests = {r1}
  Apps <- TwoApps
  Namespaces <- OneNamespace
  Names <- SomeNames
  Found <- Unknown
  MaxBatch = 3
  WorkerCount = 2
  Window = 0
  MaxAge = 1
  Interval = 1
  MaxDepth = 3
  Horizon = 0
  Faults = TRUE
  Panics = TRUE
  NoAlert = NoAlert
  NoName = NoName
  NotActive = NotActive
  NoSession = NoSession
  Indexes = {0, 1, 2}
  MaxFragments = 1
  MaxRounds = 2
INVARIANTS RepliesWhole
PROPERTIES EveryRequestAnswered  SignalEnds  TerminalsEnd
CHECK_DEADLOCK FALSE
