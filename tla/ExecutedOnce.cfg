\* A proposal that is approved twice.
SPECIFICATION Spec
CONSTANTS
  Plans <- ImagePlan
  Execs = {e1, e2}
  Approvers = {ann}
  Deployments <- OneDeployment
  Images <- TwoImages
  Limits <- OneSize
  Serviceable <- OnlyV1Serves
  Healthy0 = TRUE
  AutoMode0 = FALSE
  StoreFaults = FALSE
  LostReplies = FALSE
  MaxRestarts = 0
  MaxOutsideEdits = 0
  NoOne = NoOne
  NoPlan = NoPlan
  NoId = NoId
  NoTemplate = NoTemplate
INVARIANTS ExecutedOnce
CHECK_DEADLOCK FALSE
