SPECIFICATION FairSpec
CONSTANTS
  Threads = {t1, t2}
  PoolSize = 2
  Candidates = 2
  Forced = FALSE
  StrikeCost = 2
  StrikeLimit = 4
  MaxConversions = 3
  Upsets = {"bad_document", "crash", "timeout", "boot_fails", "spawn_error"}
  MaxUpsets = 2
CHECK_DEADLOCK FALSE
INVARIANTS
  DisabledForCause
  OneClientPerServer
  FixedSize
PROPERTIES
  GoodDocumentConverts
  EveryConversionEnds
