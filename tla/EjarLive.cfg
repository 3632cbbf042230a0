SPECIFICATION FairSpec
CONSTANTS
  u1 = u1
  u2 = u2
  w1 = w1
  w2 = w2
  cron = cron
  j1 = j1
  j2 = j2
  NoJob = NoJob
  Users <- OneUser
  Workers <- TwoWorkers
  Cron = cron
  Jobs <- OneJob
  MaxTries = 2
  Mortal <- TwoWorkers
  MaxCrashes = 1
  OldForms = FALSE
  LateRunner = FALSE
  SlowPipeline = FALSE
  Deployments = {"jobs"}
INVARIANT SubmittingIsOwned
PROPERTY SubmittingSettles
PROPERTY DecisionLearnt
\* a contract nobody acts on stops
CHECK_DEADLOCK FALSE
