SPECIFICATION StoresSpec
CONSTANTS
  Talks = {"a", "b"}
  Texts = {"long", "head", "re"}
  Said = {"long"}
  Reply = "re"
  Capped <- CappedTexts
  TalkModels = {1, 2}
  StampSlack = 0
  SyncStale = 1
  MaxAsks = 2
  MaxRewrites = 1
  MaxCaptureFaults = 1
  MaxTalkTime = 1
  Roots = {root1, root2}
  Tasks = {task1, task2}
  Viewers = {view1, view2}
  root1 = root1
  root2 = root2
  task1 = task1
  task2 = task2
  view1 = view1
  view2 = view2
  LiteTtl = 2
  MaxMoves = 1
  MaxLooks = 3
  MaxTaskTime = 2
  RawPers <- Pers
  RawPages <- PageNumbers
  Junk <- JunkValue
  AllRows <- AllValue
  PerMax = 4
  DefaultPer = 2
  Limits = {1, 2, 3}
  MaxRows = 6
  Jobs = {"j", "k"}
  OpIds = {1, 2}
  DoneLimit = 1
  MaxHostEdits = 1
  SourceValues = {"x", "y"}
  Putters = {"w1", "w2"}
  MaxPuts = 3
  MaxFileCrashes = 1
  i1 = i1
  i2 = i2
  i3 = i3
  u1 = u1
  u2 = u2
  CallIds = {i1, i2, i3}
  Turns = {u1, u2}
  TurnOf <- MCTurnOf
  Histories <- MCHistories
  ThinkingModels = {think}
  PlainModels = {plain}
  Keepers = {keep1, keep2}
  keep1 = keep1
  keep2 = keep2
  StoreTtl = 1
  StoreMax = 2
  MaxTime = 2
  MaxKeeps = 3
  NoId = NoId
  NoReasoning = NoReasoning
  EmptyReasoning = EmptyReasoning
  MaxMessages = 3
  WithoutId = FALSE
  LegacySecrets = {"old"}
  FreshSecrets = {"n1", "n2"}
  AccessProfiles = {"open", "shut"}
  OpenProfiles = {"open"}
  Clients = {"c1"}
  MaxKeyOps = 3
  MaxPresented = 1
  MaxKeyCrashes = 2
  Slots = {"key", "cookie"}
  Plaintexts = {"a", "b"}
  Vaulters = {"t1", "t2"}
  EnvKey = FALSE
  MaxSecretOps = 4
  MaxSecretCrashes = 1
  AlertKeys = {"k"}
  Severities = {0, 2}
  Firers = {"t1", "t2"}
  Cooldown = 2
  MaxAlertTime = 5
  MaxFires = 3
  MaxAlertOps = 1
  MaxAlertFaults = 1
  Banks = {"a", "b"}
  Facts = {1, 2, 3}
  Tagged = {1, 3}
  Minds = {"t1", "t2"}
  MaxMindOps = 4
  MaxMemoryFaults = 1
SYMMETRY StoresSymmetry
INVARIANTS
  MessagesAreKept
  ConversationsAreKept
  OperatorsAreToldTheTruth
  AccessIsGuarded
  MemoryIsKept
CHECK_DEADLOCK FALSE
