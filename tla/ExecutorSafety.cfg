\* Writers that overlap on one Deployment that is broken at the start, with auto
\* mode toggled, an edit from outside and audit writes that may fail.
SPECIFICATION Spec
CONSTANTS
  Plans <- SafetyPlans
  Execs = {e1, e2}
  Approvers = {ann}
  Deployments <- OneDeployment
  Images <- TwoImages
  Limits <- TwoSizes
  Serviceable <- OnlyV1Serves
  Healthy0 = FALSE
  AutoMode0 = FALSE
  StoreFaults = TRUE
  LostReplies = FALSE
  MaxRestarts = 0
  MaxOutsideEdits = 1
  NoOne = NoOne
  NoPlan = NoPlan
  NoId = NoId
  NoTemplate = NoTemplate
INVARIANTS Authorised KnownGoodWasHealthy RollbackTargetTrusted
PROPERTIES VerifiedMeansServing
SYMMETRY AnyCall
CHECK_DEADLOCK FALSE
