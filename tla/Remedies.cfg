\* Every dangerous name a diagnosis may give, overlapping tools, approvals and
\* Stop; pending plans; restarts of Pods; undone rollouts; retrospectives;
\* diagnoses.
SPECIFICATION RemediesSpec
CONSTANTS
  Tasks = {t1, t2, t3}
  Alerts <- OneAlert
  Suggestions <- DangerousNames
  QueueLen = 1
  Pipeline = TRUE
  Tools <- SafeAndDangerousTool
  OverlappingCalls = TRUE
  Requests = TRUE
  MayStop = TRUE
  Faults = TRUE
  NoTask = NoTask
  NoAction = NoAction
  PendingAlerts <- TwoAlerts
  PodCalls = {"c1", "c2"}
  Replicas = 1
  Stateful = TRUE
  CoolDown = 2
  CleanAge = 2
  MaxTime = 3
  MaxPods = 3
  MaxMishaps = 1
  Templates = {"a", "b", "c"}
  Working = {"a", "b"}
  Asked = {0, 1}
  MaxEdits = 2
  MaxUndos = 2
  NoReport = NoReport
  Corrections <- TwoAuthors
  Timelines <- OneReport
  Doubles <- TwoRequests
  Restarts <- OneRestart
INVARIANTS DangerNeedsApproval OnePlanPending RestartsSafe UndoneToPrevious
INVARIANTS ReportsSound DiagnosesSound
PROPERTIES TotalsNeverFall
SYMMETRY AnyTask
CHECK_DEADLOCK FALSE
