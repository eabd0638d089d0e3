\* Two calls over four plans, one restart of the process, lost replies.
SPECIFICATION Spec
CONSTANTS
  Plans <- CorePlans
  Execs = {e1, e2}
  Approvers = {ann}
  Deployments <- OneDeployment
  Images <- TwoImages
  Limits <- OneSize
  Serviceable <- OnlyV1Serves
  Healthy0 = TRUE
  AutoMode0 = FALSE
  StoreFaults = FALSE
  LostReplies = TRUE
  MaxRestarts = 1
  MaxOutsideEdits = 0
  NoOne = NoOne
  NoPlan = NoPlan
  NoId = NoId
  NoTemplate = NoTemplate
INVARIANTS TypeOK VerdictOnRecord
PROPERTIES ChangesControlled
SYMMETRY AnyCall
CHECK_DEADLOCK FALSE
