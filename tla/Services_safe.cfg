\* Four events to resolve; two callers of one bucket; two turns of a thread; three
\* issues in a list; four issues in reports;
\* six overlapping calls of a breaker with the thresholds of the code.
SPECIFICATION AllSpec
CONSTANTS
  Scenes = {"resolver", "limiter", "bot", "list", "reports", "breaker"}
  c1 = c1
  c2 = c2
  c3 = c3
  c4 = c4
  Calls = {c1, c2, c3, c4}
  Identities = {i1, i2}
  ExternalIds = {x1}
  NoProduct = NoProduct
  MaxOverlaps = 1
  MaxFaults = 1
  a1 = a1
  a2 = a2
  Callers = {a1, a2}
  maxTokens = 2
  refillRate = 1
  refillIntervalMs = 2
  maxWaitMs = 3
  MaxSkew = 1
  Empty = Empty
  MaxTime = 5
  eva = eva
  Engineers = {eva}
  Guests = {}
  t1 = t1
  t2 = t2
  Turns = {t1, t2}
  HistoryLimit = 4
  MaxConversations = 2
  MaxCommands = 1
  ToolRounds = 1
  RateWindow = 1
  MaxMessages = 3
  MaxClock = 1
  MaxSlackFaults = 1
  listSeverity <- ListSeverity
  categoryOf <- ListCategory
  PAGE_SIZE = 1
  MaxClicks = 3
  MaxOthers = 1
  typeOf <- ReportType
  severityOf <- ReportSeverity
  userOf <- ReportUser
  centsOf <- ReportCents
  NoUser = ""
  NoReport = NoReport
  Window = 1
  MinCluster = 2
  Horizon = 1
  AiSize = 3
  AiTitles = {"spike", "decreased"}
  Period = 1
  SomeCents = 1
  SomeUsers = 1
  Few = 2
  MaxNow = 2
  MaxMoves = 1
  MaxReports = 1
  ProviderCalls = {b1, b2, b3, b4, b5, b6}
  failureThreshold = 5
  resetTimeout = 2
  halfOpenMaxAttempts = 3
  Never = Never
  MaxResets = 1
INVARIANTS
  TypesOK
  KnownIsFound
  SameRow
  LimiterKeepsItsWord
  ConversationsHold
  SelectionIsMeant
  ReportIsSound
PROPERTIES
  OpensOnStreak
  CoolsDown
  IncidentKeepsItsName
CHECK_DEADLOCK FALSE
