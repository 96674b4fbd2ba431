SPECIFICATION Spec
CONSTANTS
  MaxInputs = 3
  MaxWorkers = {1, 2}
  Ceiling = 9
  SoftLimit = 1
  HardLimit = 2
  MaxAge = 3
  RunUpsets = {"processing", "timeout", "missing", "exit", "error",
               "report_fails", "soft_limit", "killed"}
  p1 = p1
  p2 = p2
  Processes = {p1, p2}
  ThreadsEach = 2
  Slots = 2
  Parts = {"a", "b"}
  MaxLeases = 3
  Crews <- MCCrews
  ProfileUpsets = {"bad_document", "crash", "timeout", "copy_fails", "aged",
                   "process_dies"}
  MaxProfileUpsets = 1
  MaxEvents = 3
  MaxProgress = 2
  StreamUpsets = {"redis_down", "event_lost", "disconnect", "admin_cancel", "admin_retry"}
  MaxStreamUpsets = 2
CHECK_DEADLOCK FALSE
INVARIANTS
  WorkspaceOutlivesWork
  ErrorsHaveCause
  TemplateIsWhole
  ProfilesAreExclusive
  EndsAreReal
PROPERTIES
  WorkspacesGo
  LearnsTheEnd
