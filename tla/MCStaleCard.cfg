SPECIFICATION SearchesOnly
CONSTANTS
  b1 = b1
  b2 = b2
  x1 = x1
  s1 = s1
  s2 = s2
  y1 = y1
  y2 = y2
  k1 = k1
  k2 = k2
  m1 = m1
  m2 = m2
  w1 = w1
  r1 = r1
  r2 = r2
  a1 = a1
  c1 = c1
  c2 = c2
  d1 = d1
  d2 = d2
  d3 = d3
  i1 = i1
  i2 = i2
  t1 = t1
  t2 = t2
  t3 = t3
  t4 = t4
  t5 = t5
  v1 = v1
  v2 = v2
  v3 = v3
  NoVersion = NoVersion
  Version <- MCVersion
  PromptServer = {s1, s2}
  CodeOf <- MCCodeOf
  PinOf <- MCPinOf
  Operator = {o1}
  PromptSession = {x1}
  Shares = {5000}
  Bucket <- MCBucket
  Manifests <- MCManifests
  MaxDeployments = 3
  MaxRevocations = 1
  NoDoc = NoDoc
  Document <- MCDocument
  ToolAllowlist = {"search", "orders"}
  ToolsAtHand = {"search"}
  Query = {{"k"}}
  CapScope = {"shopping"}
  CapSession = {x1}
  Horizon = 2
  Reader = {r1, r2}
  SkillId = {g1}
  Body = {y1}
  Statement = {z1, z2}
  MaxSkills = 1
  MaxVersions = 3
  TopK = 1
  Nobody = Nobody
  Message = {m1, m2}
  QueueTask = {w1}
  TaskMaps <- MCTaskMaps
  Group = {g1, g2}
  Workers = g1
  Pruner = {r1, r2}
  ToolCall = {j1, j2, j3}
  ToolProc = {e1}
  ToolProcOf <- MCToolProcOf
  Threshold = 2
  CoolTicks = 1
  Everyone = Everyone
  Api = {a1, a2}
  WorkerProc = {w1}
  FrontBuyer = {b1, b2}
  FrontSession = {s1, s2}
  RequestId = {1, 2}
  Ask = {1, 2}
  Watcher = {k1}
  MaxEvents = 2
  Nil = Nil
  Catalog = {d1, d2}
  SkusOf <- MCSkusOf
  SameAs <- MCSameAs
  PriceOf <- MCPriceOf
  Search = {c1, c2}
  SearchQuery <- MCSearchQuery
  Widths <- MCWidths
  FusedLimit = 1
  MaxStock = 1
  NoSku = NoSku
  RunText = {1}
  RunTool = {2, 3}
  SkillTool = {2}
  PlanTask = 0
  MaxWaiting = 1
  Good = {d1, d2, d3}
  Recognised = {d1, d2}
  Dispatch = {i1, i2}
  Lookup = {c1, c2}
  Questions = {{d1, d2}}
  Findings <- MCFindings
  LoopWindow = 2
  LoopLimit = 2
  DriftEvery = 1
  EmptyLimit = 2
  MaxTurns = 2
  MaxRounds = 2
  Nothing = Nothing
  Cases <- MCCases
  Strict = TRUE
  AllowCached = FALSE
  MaxTries = 2
  MaxEdits = 1
  ScoreId = {x1, y1}
  Marks = {0, 1}
  Flusher = {r1, r2}
  BadCase = {y1, y2}
  Proposal = {k1}
  Unsent = Unsent
  Writer = {r1, r2}
  Said = {z1, z2}
  Snapshots = {y1, y2}
  Owner = {b1, b2}
  Damaged = Damaged
  Absent = Absent
  DocId = {1, 2, 3, 4}
  Files <- MCFiles
  FactsOf <- MCFactsOf
  Shelves <- MCShelves
  KnowServer = {s1, s2}
  LastDay = 1
  NoAnswer = NoAnswer
  MetricTurn = {c1, c2}
  ModelCall = {j1, j2}
  UsedTokens = {1}
  MaxResults = 1
  NotKnown = NotKnown
  g1 = g1
  g2 = g2
  q1 = q1
  q2 = q2
  Deal = {q1, q2}
  Tab = {g1, g2}
  MaxShown = 2
  NoDeal = NoDeal
  Currency = {"CNY", "USD", "JPY"}
  RateOf <- MCRateOf
  Destination = {"US", "CN"}
  HalvesUp <- MCHalvesUp
  FreightOf <- MCFreightOf
  DutyFree <- MCDutyFree
  DutyOf <- MCDutyOf
  PricedSku <- MCOffers
  Wish <- MCWishes
  MaxPriced = 2
  Anywhere = Anywhere
INVARIANTS CardsAllowed
CHECK_DEADLOCK FALSE
