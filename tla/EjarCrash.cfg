SPECIFICATION Spec
CONSTANTS
  u1 = u1
  u2 = u2
  w1 = w1
  w2 = w2
  cron = cron
  j1 = j1
  j2 = j2
  NoJob = NoJob
  Users <- OneUser
  Workers <- OneWorker
  Cron = cron
  Jobs <- TwoJobs
  MaxTries = 2
  Mortal <- UserAndWorker
  MaxCrashes = 1
  OldForms = TRUE
  LateRunner = TRUE
  SlowPipeline = TRUE
  Deployments = {"jobs", "inline"}
SYMMETRY Symmetry
INVARIANT NeverAheadOfEjar
INVARIANT CarriedIsTrue
PROPERTY KeepsItsPromise
\* a contract nobody acts on stops
CHECK_DEADLOCK FALSE
