SPECIFICATION SharingPartsSpec
CONSTANTS
  Viewers = {v1}
  OrgMembers = {v1}
  ShareCalls = {c1, c2}
  RapidThreshold = 1
  MaxGrants = 2
  Reporters = {u1, u2}
  Owners = {o1}
  ReportCalls = {c1, c2}
  RateLimit = 1
  ClusterThreshold = 2
  ListCap = 2
  MaxReports = 3
  PageLimit = 1
  MaxSeq = 3
  Values = {"a", "b", "c"}
  BucketLimit = 2
  MaxPlayed = 3
  SharePairs <- MCPairs
  Sharer = "a"
  TopLimit = 2
  AuditPage = 2
  MaxAudit = 2
  PageMax = 2
  AskedLimits = {0, 1, 3}
  MaxNumber = 4
  Catalogues <- MCCatalogues
  WikiPageLimit = 2
  MaxPages = 2
  MaxTotal = 3
  IdleGap = 2
  DwellCap = 2
  Staleness = 2
  DayLength = 3
  TimelineDays = 2
  HistoryKinds = {"area18", "arccorp", "join", "buy", "answer", "answerAny"}
  HistoryGaps = {0, 1, 3}
  MaxHistory = 4
INVARIANTS SharingSafe ReportsSafe 
CONSTRAINT SharingBound
SYMMETRY SharingSymmetry
CHECK_DEADLOCK FALSE
