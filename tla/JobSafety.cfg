CONSTANTS
  Jobs = {j1}
  Workers = {w1, w2}
  NoJob = NoJob
  SecretJobs = {j1}
  MaxOutputs = 2
  Ceiling = 1
  Upsets = {"publish_lost", "publish_late", "api_crash", "redeliver", "node_crash",
            "child_killed", "db_commit", "db_flush", "admin_cancel",
            "admin_retry"}
  MaxUpsets = 2
SPECIFICATION Spec
SYMMETRY Symmetry
INVARIANTS TypeOK MessageHasRow CompletedIsWhole
CHECK_DEADLOCK FALSE
