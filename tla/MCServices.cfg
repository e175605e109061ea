SPECIFICATION Spec
CONSTANTS
  h1 = h1
  h2 = h2
  k1 = k1
  k2 = k2
  \* Ledger
  Symbols = {"A"}
  Writers = {k1, k2}
  Quantities = {1, 2}
  PriceSet = {2, 5}
  MaxTx = 4
  Day <- MCDay
  NoTx = NoTx
  \* Reports
  LastDay = 4
  Equities = {0, 2, 3, 5}
  Windows = {1, 2, 4}
  Portfolio = {"A", "B"}
  Weights <- MCWeights
  LossLimits = {0, 40}
  NoValue = NoValue
  \* PaperTrading
  Requests = {q1}
  Automaton = Automaton
  Rules = {r1}
  Tickers = {"A"}
  Quotes = {2}
  Sizes = {1}
  StartingCash = {300}
  Scale = 10
  SlippageBps = 2
  FeeBps = 1
  Cooldown <- MCCooldown
  FillWindow = 2
  MaxFills = 3
  MaxMinute = 2
  MaxLostMarks = 1
  Nil = Nil
  \* CopyTrading
  Calls = {k1, k2}
  Traders = {u1}
  Strategies = {g1}
  Instruments = {"A"}
  OpeningHoldings <- MCOpening
  Hundredth = 10
  Lots = {4, 16}
  MaxSignals = 1
  MaxIntents = 2
  MaxPushes = 1
  Vacant = Vacant
  \* Sessions
  Hosts = {h1, h2}
  Tasks = {k1, k2}
  AccessTtl = 2
  RefreshTtl = 7
  Second = 3
  MaxTokens = 6
  MaxLogins = 1
  MaxCalls = 2
  LastTick = 7
  MaxOutages = 1
  Empty = Empty
  \* Vault
  Processes = {h1, h2}
  Jobs = {k1, k2}
  ApiKeys = {key}
  ApiScopes = {"read", "webhook"}
  MaxJobs = 3
  MaxKeys = 2
  Absent = Absent
  \* MarketSignal
  Servers = {h1}
  Asks = {k1, k2}
  Ttl = 1
  FetchTime = 1
  Attempts <- MCAttempts
  FeedItems <- MCFeeds
  FeedLimit = 2
  Threshold = 2
  Recovery = 1
  LastMoment = 3
  MaxAsks = 3
  MaxCuts = 1
  Free = Free
  \* Backtest
  RsiWindow = 1
  LeastWarmup = 2
  Slack = 1
  LeastTrain = 2
  BacktestRequests <- MCRequests
  Closes = {0, 2, 3}
  MaxBars = 4
  Capital = 6
  Owners = {u1}
  Savers = {h1, h2}
  MaxRunsPerUser = 1
  MaxSaves = 2
  MaxKills = 1
  Resting = Resting
  \* Schema
  Instances = {h1, h2}
  Releases = {3, 8, 10, 18}
  MaxDeploys = 3
  Down = Down
  \* Retrieval
  Nodes = {n1}
  Fetchers = {k1, k2}
  Batches <- MCBatches
  Capacity = 2
  Queries = {"q"}
  Score <- MCScore
  MinScore = 1
  TopK = 1
  Companies = {"A"}
  Filings <- MCFilings
  MaxFetches = 3
  MaxFilings = 1
  MaxDeaths = 1
  Unset = Unset
  \* Committee
  CommitteeFacts <- MCCommitteeFacts
  BoardroomFacts <- MCBoardroomFacts
  AuditFacts <- MCAuditFacts
  GuardFacts <- MCGuardFacts
  Multiples = {0, 119, 180, 250, 351, 451}
  Leverages = {0, 12, 15, 20, 31}
  NoRuling = NoRuling
  \* Scorecard
  SignalKinds <- MCKinds
  Assets = {"A", "B"}
  Fills = {2}
  Marks = {0, 1, 3}
  MinSample = 2
  MaxGraded = 3
  MaxMoves = 1
  Blank = Blank
SYMMETRY Alike
CHECK_DEADLOCK FALSE
INVARIANTS
  TypeOK
  AccountingsAgree ReportsAddUp PaperBooksAddUp RuleKeepsCooldown CopiesAddUp
  SpentTokensStaySpent SecretsSurviveRotation SignalIsGrounded BacktestHolds
  ServingFitsSchema IndexIsHonest RulingsHoldTogether ScorecardAddsUp
