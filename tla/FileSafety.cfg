SPECIFICATION Spec
CONSTANTS
  Uploads = {"u1"}
  Runs = {"r1"}
  MaxBatch = 2
  MaxRequests = 1
  Previewed = {"u1"}
  Retention = 1
  MaxTime = 4
  Upsets = {"api_crash", "worker_crash", "cleaner_crash", "db_flush", "db_commit", "unlink_fails", "admin_delete", "admin_purge"}
  MaxUpsets = 3
CHECK_DEADLOCK FALSE
INVARIANTS
  KeptUntilDue
  CompletedIsServed
