CONSTANTS
  Jobs = {j1, j2}
  Workers = {w1, w2}
  NoJob = NoJob
  SecretJobs = {j1}
  MaxOutputs = 2
  Ceiling = 1
  Upsets = {"publish_lost", "api_crash", "node_crash", "child_killed",
            "db_commit", "db_flush"}
  MaxUpsets = 1
SPECIFICATION Spec
PROPERTIES ImplementsContract
CHECK_DEADLOCK FALSE
