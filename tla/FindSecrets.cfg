CONSTANTS
  Jobs = {j1}
  Workers = {w1, w2}
  NoJob = NoJob
  SecretJobs = {j1}
  MaxOutputs = 1
  Ceiling = 1
  Upsets = {"node_crash"}
  MaxUpsets = 1
SPECIFICATION Spec
INVARIANTS SecretsLeave
CHECK_DEADLOCK FALSE
