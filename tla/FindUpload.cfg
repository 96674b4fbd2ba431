SPECIFICATION Spec
CONSTANTS
  Uploads = {"u1"}
  Runs = {}
  MaxBatch = 2
  MaxRequests = 1
  Previewed = {}
  Retention = 1
  MaxTime = 3
  Upsets = {"db_flush"}
  MaxUpsets = 1
CHECK_DEADLOCK FALSE
INVARIANTS
  FailedUploadLeavesNothing
