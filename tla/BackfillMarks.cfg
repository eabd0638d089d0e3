\* A failed verification and a restart.
SPECIFICATION Spec
CONSTANTS
  Plans <- ImagePlan
  Execs = {e1}
  Approvers = {ann}
  Deployments <- OneDeployment
  Images <- TwoImages
  Limits <- OneSize
  Serviceable <- OnlyV1Serves
  Healthy0 = TRUE
  AutoMode0 = FALSE
  StoreFaults = FALSE
  LostReplies = FALSE
  MaxRestarts = 1
  MaxOutsideEdits = 0
  NoOne = NoOne
  NoPlan = NoPlan
  NoId = NoId
  NoTemplate = NoTemplate
INVARIANTS FailureNotMarkedSuccess
CHECK_DEADLOCK FALSE
