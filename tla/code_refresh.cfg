SPECIFICATION Spec
CONSTANTS
  Subjects = {"code"}
  u1 = u1
  u2 = u2
  c1 = c1
  c2 = c2
  f1 = f1
  f2 = f2
  s1 = s1
  d0 = d0
  d1 = d1
  d2 = d2
  d3 = d3
  l1 = l1
  l2 = l2
  Thread = {u1, u2}
  Cand = {c1, c2}
  NoCand = NoCand
  MaxAttempts = 2
  NodeBudgets <- TheNodeBudgets
  Policies = {"append", "chunk"}
  StorageFaults = TRUE
  File = {f1, f2}
  Slot = {s1}
  Hash = {u1, u2}
  NoHash = NoHash
  Mentions <- TheMentions
  Faults = FALSE
  SyncBudgets <- RefreshOnly
  Dir = {d0, d1, d2, d3}
  Root = d0
  Leaf = {l1, l2}
  Trees <- TheTrees
  MaxChildren = 2
  MaxLLM = 1
  DagFaults = TRUE
  MaxHost = 4
  Rolling = {TRUE}
  ComposeBudgets <- TheComposeBudgets
  Runner = {u1, u2}
  Lines = 3
  HalfLines = TRUE
  AutoStop = TRUE
  Sends = 2
  n3 = n3
  Node = {u1, u2, n3}
  AddOnly = {n3}
  MaxIterations = 2
  e1 = e1
  e2 = e2
  e3 = e3
  e4 = e4
  Span = {e1, e2, e3, e4}
  Full = e4
  SamePrompt <- TwoSame
  MaxWorkers = 2
  g1 = g1
  m1 = m1
  m2 = m2
  m3 = m3
  k1 = k1
  k2 = k2
  k3 = k3
  Entry = {g1, m1, m2, m3, k1, k2, k3}
  Level2 = {k1, k2, k3}
  SearchRoot = "root"
  Parents <- TheParents
  Similarities <- TheSimilarities
  SeedCount = 3
  TopK = 2
  MaxRounds = 2
  q1 = q1
  q2 = q2
  q3 = q3
  q4 = q4
  q5 = q5
  SnippetsOf <- TheSnippets
  Relations <- TheRelations
  SearchConfigs <- TheSearchConfigs
  CandidateLimit = 2
  EmbedLimit = 2
  MaxSnippets = 3
  BatchTexts = 3
  TopEach = 2
  IngestFiles = 2
  IngestChunks = 3
  Sources <- TheSources
  TargetChars = 4
  OverlapChars = 2
  MaxChars = 6
  Hook = {u1, u2}
  Path = {f1}
  Command = {f2}
  Output = {c1, c2}
  NoOutput = NoOutput
  Session = {"a", "b"}
  MaxRetries = 3
  ToolBudgets <- TheToolBudgets
  Plugins = {"queuefs", "streamfs"}
  Queue = {"jobs", "jobs/old", "jobs_old"}
  Below <- TheBelow
  TableName <- TheTables
  QueueServer = {"s1", "s2"}
  QueueHandle = {"h"}
  QueueBackends = {"memory", "sqlite", "tidb"}
  MaxQueued = 2
  MaxRequests = 4
  MaxStops = 1
  StreamReader = {u1, u2}
  StreamWriter = {c1, c2}
  RingSize = 1
  ChannelBuffer = 1
  StreamBudgets <- TheStreamBudgets
  Services = {"filter", "strategies"}
  Texts <- TheTexts
  MaxAdjacent = 1
  TruncateLines = 3
  TailLines = 1
  SummaryLines = 2
  ShownErrors = 2
  Outputs <- TheOutputs
  ContextWindow = 1
  SamplePer = 1
  SomeOthers = 1
  Threshold = 3
  HeadLines = 2
  TailOfBlock = 1
  MaxCommits = 3
  MaxTroubles = 1
  AbstractRooms = {0, 1}
  BootFile = {c1, c2}
  Client = {u1, u2}
  BatchFiles = 1
  DrainRounds = 2
  WaitSettings <- TheWaitSettings
  Caller = {u1, u2}
  MaxProcs = 4
  MaxCommands = 3
  MaxDeaths = 1
  VectorClient = {u1, u2}
  RecordId = {"x", "y"}
  Facts <- TheFacts
  Batches = {{"x", "y"}}
  Filters <- TheFilters
  VectorTopK = 1
  PoolSize = 1
  MaxVectorCalls = 3
  VectorBudgets <- TheVectorBudgets
  Conversation = {"s1", "s2"}
  NoAgent = "no agent"
  Contexts <- TheContexts
  Answers <- TheAnswers
  Memories <- TheMemories
  Slug <- TheSlugs
  Topic <- TheTopics
  SchemaSets <- TheSchemaSets
  RoutingBudgets <- TheRoutingBudgets
  Account = {"a", "b", "c"}
  UserName = {"admin", "u"}
  AgentName = {"g"}
  Enrolled <- TheEnrolled
  SharedAgents = {}
  CodeMode = TRUE
  Worker = {c1, c2}
  Visitor = {u1, u2}
  Asked <- TheAsked
  Presented <- ThePresented
  MaxAsked = 2
  RegistryBudgets <- TheRegistryBudgets
  ModelThread = {u1, u2}
  Replies <- TheReplies
  ModelRequests <- TheModelRequests
  Length <- TheLengths
  Caps <- TheCaps
  MaxBatch = 2
  CacheMax = 1
  ToolAttempts = 3
  ClientSettings <- TheClientSettings
  MaxModelCalls = 2
CHECK_DEADLOCK FALSE
SYMMETRY Symmetry
INVARIANT RefreshRebuilds
