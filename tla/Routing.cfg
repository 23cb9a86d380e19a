CONSTANTS
  p1 = p1
  p2 = p2
  big = big
  small = small
  code = code
  debug = debug
  agentic = agentic
  IntentTasks = {code, debug}
  Agentic = agentic
  Research = research
  Casual = casual
  CodeGeneration = code
  Nothing = nothing
  IntentLists <- MCIntentLists
  IntentMessages <- MCIntentMessages
  MaxConversation = 3
  RProviders = {p1, p2}
  RModels = {big, small}
  RTasks = {code, debug}
  StaticChain <- MCChain
  Capability <- MCCapability
  Cheapness <- MCCheapness
  Window <- MCWindow
  Sizes = {0, 2}
  RuleLists <- MCRuleLists
  ConfigRules <- MCConfigRules
  Floors = {0, 70}
  Unset = unset
  k1 = k1
  k2 = k2
  l1 = l1
  l2 = l2
  WithLegacyRow = TRUE
  Logicals = {l1, l2}
  BenchKeys = {k1, k2}
  CTasks = {code, debug}
  Derived <- MCDerived
  Releases = {1, 2}
  Legacy = 0
  ManualScores = {40, 90}
  SeedRows <- MCSeedRows
  InitialRows <- MCInitialRows
  InitialEntry <- MCInitialEntry
  Lookups = {x1, x2}
  Editors = {e1, e2}
  MaxEdits = 2
  NoCache = NoCache
  NoEntry = NoEntry
  FullPlan = 4
  BalanceTTL = 2
  MaxCredits = 2
  MaxScrapes = 3
  MaxAccountOps = 2
  MaxCreditTime = 3
  MaxPriceRows = 2
  MaxTokens = 2
  Callers = {t1, t2}
  CatalogTTL = 4
  CatalogCooldown = 2
  MaxCatalogTime = 9
  MaxRelease = 2
SPECIFICATION MCSpec
SYMMETRY MCSymmetry
INVARIANTS
  RequestsGoToTheBestServer
  RankingFollowsTheTables
  CreditFollowsTheAccount
  BillsAndNamesAreRight
PROPERTIES
  NothingHeardIsLost
CHECK_DEADLOCK FALSE
