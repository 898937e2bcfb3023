SPECIFICATION PartsSpec
CONSTANTS
  Tabs = {"own", "popup"}
  OwnTabs = {"own"}
  Fields = {"f", "g"}
  Containers = {"window", "list"}
  Positions = {10, 20}
  Urls = {"x", "y"}
  MaxGestures = 3
  MaxTakeOvers = 2
  MaxTurns = 7
  MaxUnvalidated = 2
  StaleThreshold = 5
  MaxNoAction = 3
  MaxCritics = 3
  Inputs = {"f"}
  MaxBatch = 3
  MaxResets = 1
  MaxRecorded = 4
  TestIds = {"t"}
  Names = {"a"}
  MaxListed = 2
  MaxChanges = 2
  TokenLimit = 9
  MaxCalls = 5
  MaxHandBacks = 1
  Capacity = 2
  MaxShown = 2
  MaxAsked = 1
  MaxLag = 2
  MaxLeases = 2
  MaxClients = 1
  MaxChunks = 2
  MaxReplies = 1
  OutboxMax = 1
  BatchItems = 2
  MaxChannels = 1
  PendingMax = 1
  LateThreads = FALSE
  MaxAttempts = 3
  MaxSites = 2
  MaxTests = 2
  MaxLaunched = 3
INVARIANTS PartsTypeOK     StepsFindTheirTab ReplayedClickHitsTarget  OneStateWhileTold PageCatchesUp CloseReachesThePage  RestingEndsAgree AbortIsHeeded ScriptsHaveAnOwner DependentsFindTheirScript RunsHaveTheirTest
PROPERTIES  CutKeepsProtected DeletesTakeTheFamily
CHECK_DEADLOCK FALSE
