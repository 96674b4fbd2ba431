SPECIFICATION Spec
CONSTANTS
  Spellings = {"Ann", "ann", "root"}
  w1 = w1
  w2 = w2
  Normal <- MCNormal
  Passwords = {"p"}
  Requests = {w1, w2}
  AdminEmail = "root"
  AdminPassword = "p"
  MaxAccounts = 3
  MaxChanges = 2
  AccountUpsets = {"process_dies"}
  Callers = {"here", "unseen"}
  NoCaller = "unseen"
  Mailboxes = {"Ann", "ann"}
  Canonical <- MCCanonical
  Posts <- MCPosts
  Senders = {w1, w2}
  LimitPerMinute <- MCLimits
  MaxPerDay = 1
  Day = 1
  ChallengeLife = 1
  MaxTicks = 2
  MaxSends = 3
  LimitUpsets = {"redis", "request_dies"}
  ToolSlugs = {"merge", "split"}
  DefaultSettings <- MCDefaults
  Overrides <- MCOverrides
  AssetValue = "uri"
  Editors = {w1, w2}
  Starters = {w1, w2}
  MaxEdits = 2
  MaxStarts = 3
  MaxOwners = 2
  SettingUpsets = {"start_dies"}
  Fingerprints = {"a"}
  Captures = {w1, w2}
  MaxErrors = 4
  ErrorUpsets = {"database"}
  Texts = {"a"}
  Slugs = {"s", "t"}
  Slugify <- MCSlugify
  Tools = {"merge"}
  Users = {"u"}
  Forms = {w1, w2}
  MaxRows = 3
  MaxForms = 2
  Kinds = {"announcement", "faq", "post", "page", "message", "subscription"}
  MaxFilled = 2
  MaxMigrations = 3
SYMMETRY Symmetry
CHECK_DEADLOCK FALSE
INVARIANTS
  OneAccountPerAddress
  ChangesAreAudited
  LimitsHold
  StartsSeed
  ErrorsAreCounted
  PublishedIsDated
  MigrationsFit
PROPERTIES
  SettledChangesStay
