\* Progress of the verifications, for two calls.
SPECIFICATION FairSpec
CONSTANTS
  Plans <- LivePlans
  Execs = {e1, e2}
  Approvers = {ann}
  Deployments <- OneDeployment
  Images <- TwoImages
  Limits <- OneSize
  Serviceable <- OnlyV1Serves
  Healthy0 = TRUE
  AutoMode0 = FALSE
  StoreFaults = FALSE
  LostReplies = FALSE
  MaxRestarts = 0
  MaxOutsideEdits = 0
  NoOne = NoOne
  NoPlan = NoPlan
  NoId = NoId
  NoTemplate = NoTemplate
PROPERTIES  BadChangeSettles
CHECK_DEADLOCK FALSE
