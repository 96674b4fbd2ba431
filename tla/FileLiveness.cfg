SPECIFICATION FairSpec
CONSTANTS
  Uploads = {"u1"}
  Runs = {"r1"}
  MaxBatch = 2
  MaxRequests = 1
  Previewed = {}
  Retention = 1
  MaxTime = 4
  Upsets = {"cleaner_crash", "db_flush", "commit_unknown"}
  MaxUpsets = 2
CHECK_DEADLOCK FALSE
INVARIANTS
  ServedIsWhole
PROPERTIES
  Reclaimed
  ImplementsContract
