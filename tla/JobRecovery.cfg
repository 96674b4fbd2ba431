CONSTANTS
  Jobs = {j1}
  Workers = {w1, w2}
  NoJob = NoJob
  SecretJobs = {j1}
  MaxOutputs = 2
  Ceiling = 1
  Upsets = {"publish_lost", "publish_late", "node_crash", "admin_cancel"}
  MaxUpsets = 3
SPECIFICATION FairSpec
INVARIANTS NoStrandedJob CompletedFromOneRun
PROPERTIES RetentionWins
CHECK_DEADLOCK FALSE
