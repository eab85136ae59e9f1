SPECIFICATION Spec
CONSTANTS
  Proxies = {proxy}
  Services = {service}
  Jobs = {j1, j2}
  MaxVersions = 2
  RegistryCalls = 5
  MaxCrashes = 1
  Torn = Torn
  Absent = Absent
  Percents = {0, 4, 50, 75}
  Candidates = {c1}
  Baseline = Baseline
  NoName = NoName
  MinSamples = 2
  CanaryRequests = 3
  Threads = {t1, t2}
  Releases = {a1, a2}
  NoVersion = NoVersion
  Unlocked = Unlocked
  MaxDrain = 2
  MaxRequests = 1
  ManagerCalls = 3
  Interactions <- LoggedTalks
  FeedbackChoices <- Opinions
  Fixtures <- BuiltIn
  KEEP = 50
  MIN_SAMPLES = 2
  FALLBACK = TRUE
  LIBS = TRUE
  PROD = TRUE
  MaxFeedback = 1
  MaxExports = 2
  TrainingJobs = 1
  Thresholds <- Limits
  TOLERANCE = 2
  REQUIRE_BASELINE = FALSE
  Reports <- Measured
  Answers <- Judged
  CACHE_MAX = 1
  MaxResults = 2
  Modes = {"local", "remote", "none"}
  MaxServers = 2
  SlmCalls = 3
  PoolConns = {1, 2, 3}
  MAX_CONNECTIONS = 2
  MAX_KEEPALIVE = 2
  CONNECT_RETRIES = 1
  ConnKinds <- ConnectionKinds
  PoolCalls = 4
  PoolFaults = 2
  ToolNames = {"x", "y", "z"}
  SdkTools <- Coded
  ToolEntries <- Declared
  Operations <- Specified
  INCLUDE_TAGS = {"s"}
  EXCLUDE_TAGS = {}
  ToolBatches <- AskedOf
  MAX_CONCURRENCY = 2
  ToolChanges = 3
  NoTool = NoTool
INVARIANTS OneProduction PhaseMatchesSplit AdapterSettles HeldOut GateMonotone OneOwner OneResultPerCall
PROPERTIES CallsReturn
CHECK_DEADLOCK FALSE
