CONSTANTS
  Jobs = {j1}
  Workers = {w1, w2}
  NoJob = NoJob
  SecretJobs = {}
  MaxOutputs = 2
  Ceiling = 1
  Upsets = {"admin_retry"}
  MaxUpsets = 1
SPECIFICATION Spec
INVARIANTS RequeuedIsQueued
CHECK_DEADLOCK FALSE
