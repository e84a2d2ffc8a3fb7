SPECIFICATION ClientSpec
CONSTANTS
  LogLength = 3
  BurstLines = {1, 2, 3}
  Late = {3}
  Refined = {2}
  MinBurst = 2
  PageSize = 1
  MaxRowIds = 3
  InferWindow = 2
  ReconcileSecs = 1
  DeathSecs = 2
  ShopSecs = 2
  LoggedKinds = {"buy", "buyAny", "answer", "answerOther", "answerAny", "destroyed", "spawn", "death", "planetA", "planetB", "inventory"}
  LoggedGaps <- MCGaps
  MaxLogged = 3
  GameLines <- MCGameLines
  Manifests <- MCManifests
  LineWorkers = {t1, t2}
  MaxRead = 2
  LauncherTexts <- MCTexts
  MaxDays = 2
  MaxLines = 3
  CrashTimes = {1, 2}
  MaxSweeps = 2
  HealthCalls = {t1, t2}
  SysinfoTtl = 1
  LogStale = 1
  DiskLow = 2
  MaxChanges = 2
  OddLines <- MCOddLines
  KnownTags = {"known"}
  RuleTags = {}
  RawCap = 1
  BatchCap = 2
  SubmitCalls = {t1, t2}
  MaxCaptures = 2
  MaxSubmits = 2
  WindowKinds = {"a", "b", "o"}
  MaxWindow = 8
INVARIANTS LogsKept DerivedAsMeant HealthHolds UnknownsKept
SYMMETRY ClientSymmetry
CHECK_DEADLOCK FALSE
