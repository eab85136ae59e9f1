SPECIFICATION MCSpec
CONSTANTS
  a1 = a1
  a2 = a2
  Actors = {a1, a2}
  Users = {"u"}
  LOGIN_MAX_ATTEMPTS = 1
  LOGIN_WINDOW = 1
  LOGIN_COOLDOWN = 3
  AD_ENABLED = TRUE
  MaxPairs = 3
  MaxExpiries = 2
  MAX_KEYS_PER_USER = 2
  MaxIssued = 3
  MaxRotations = 1
  Shapes <- SentShapes
  Roles <- CredentialRoles
  AUTH_ENABLED = TRUE
  RBAC_ENABLED = TRUE
  TRUSTED_PROXY_COUNT = 1
  RATE = 2
  COST = 3
  BURST = 1
  MAX_AGE = 2
  MAX_UPLOAD_SIZE = 1
  ALLOWED_CONTENT_TYPES = {"pdf"}
  MaxRequests = 3
  MaxTime = 3
  MaxFiles = 1
  KbNames = {"Docs", "docs"}
  Collection <- OneCollection
  MaxKbs = 2
  MaxTasks = 2
  FeedbackIds = {"a1"}
  MAX_BACKUP_COUNT = 2
  MaxFile = 1
  MaxRecords = 4
  MaxFlags = 1
  Managers = {"m1", "m2"}
  LATEST = 3
  Neo4j = {3}
  Drivers = {"m1"}
  MigrationRuns = 5
  MAX_RETRIES = 2
  MaxMessages = 2
  MaxRounds = 4
  JobDocs = {"d1", "d2"}
  SourceOf <- SourceOfDocs
  JobSources <- TwoSources
  Pages = {"d1"}
  Args <- CommandLines
  MaxVersion = 2
  JobRuns = 2
  Pipelines = {"p", "q"}
  WalDocs = {"d", "e"}
  Backends = {"file", "redis", "proxy"}
  WalCalls <- CallsOver
  WalFaults = 1
  SourceItems <- Listed
  SeenItems = {"b"}
  ActiveProjects = {"a", "b"}
  PAGE = 2
  REQUEST_RETRIES = 1
  DOWNLOAD_RETRIES = 1
  MAX_ITEMS = 1
  SourceChanges = 1
  SourceFaults = 2
SYMMETRY Sym
INVARIANTS
  RefreshSpends
  KeysUsable
  RateContract
  KbBooks
  BackupOrder
  TextCovered
  ChunksAccounted
  GroundedAnswer
  RecordedInOrder
  DeadLettersKept
  ExtractionAccounted
  InPlace
  ScoresSound
  RecordsKept
CHECK_DEADLOCK FALSE
