SPECIFICATION ServicesSpec
CONSTANTS
  k1 = k1
  k2 = k2
  u1 = u1
  u2 = u2
  request = request
  bundle = bundle
  p1 = p1
  p2 = p2
  Kinds <- TwoKinds
  Users <- TwoUsers
  Keys <- TwoKeys
  Processes <- TwoProcesses
  Calls <- SomeCalls
  Policies <- SomePolicies
  DefaultLimits <- Loose
  MaxWindow = 1
  Tenant = Tenant
  NoUser = NoUser
  NoCall = NoCall
  NoLimit = NoLimit
  None = None
  Callers <- TwoProcesses
  MaxTime = 2
  KeptRows <- ThreeRows
  ClassOf <- TheirClasses
  RetentionDays <- SomeDays
  Plans <- TwoProcesses
  Executors <- TwoExecutors
  MaxCandidates = 2
  MaxAge = 1
  NoPlan = NoPlan
  NoResult = NoResult
  Selections <- OneSelection
  EvidenceOf <- ItsEvidence
  PrivacyPolicies <- TwoVersions
  Provider <- Hosted
  LlmAnswers <- SomeAnswers
  Budget = 1
  EvidenceItems <- SomeEvidence
  CategoryOf <- ItsCategories
  FactsOf <- ItsFacts
  AgentAnswers <- SomeReplies
  Investigations <- Investigated
  RunRequests <- EveryRun
  ProbeFacts <- TwoFacts
  Sources <- FiveSources
  Skeleton <- Patches
  AsOf = 10
  OutcomeWindow = 1
  TrainBefore = 3
  ValidationBefore = 6
  TestBefore = 9
  Configs <- ThreeConfigs
  ModelScore <- Fit
  ConfigDigest <- SomeDigest
  Thresholds <- OneOrTwo
  BaselineThreshold = 2
  MaxEpochs = 3
  Patience = 2
  MinDelta = 1
  Losses <- ThreeLosses
  MaxRevisions = 2
  Changes <- ThreeChanges
  MaxDepth = 2
  MaxNodes = 7
  MaxHistory = 2
  HistoryDays = 1
  ReportedEvents <- OneEvent
  Signals <- ThreeSignals
  Comparisons <- SomePairs
  Artifacts <- OneModel
  Stability <- SomeStability
  DriftPolicy <- SomeThresholds
  MinimumWindow = 1
  MaximumWindow = 2
  MaxCalls = 2
  Databases <- OneDatabase
  CandidateRows <- SchemaRows
  MaxWrites = 2
CHECK_DEADLOCK FALSE
SYMMETRY ServicesSymmetry
INVARIANTS ServicesTypeOK WithinLimit ChargedOnce LedgerBalances SentWasPermitted RowsAreGrounded
INVARIANTS ResultsAreEarned CleanupIsTruthful VerdictsAreFair SplitsAreSeparated
INVARIANTS SelectionIgnoresTest HeadIsTheBestOfItsData BlastIsExact ScoreIsOfStoredFeatures
INVARIANTS FeedbackIsGoverned LineageHolds
PROPERTY DeletionIsGoverned
