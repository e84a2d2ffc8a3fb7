SPECIFICATION CommunitySpec
CONSTANTS
  Members = {u1, u2}
  OrgCalls = {c1, c2}
  SlugMax = 0
  MaxOrgs = 2
  SubUsers = {u1, u2}
  Voters = {u1}
  SubCalls = {c1, c2}
  FlagThreshold = 2
  QueueLimits = {1, 2}
  MaxSubmissions = 2
  StaffUsers = {u1, u2}
  BootstrapUsers = {u1}
  StaffCalls = {c1, c2}
  SmtpCalls = {c1, c2}
  MaxPuts = 3
  RsiCalls = {c1, c2}
  VerifyTtl = 2
  Cooldown = 2
  MaxCodes = 2
  RsiHorizon = 3
  Writers = {w1, w2, w3}
  Payloads = {c1, c2}
  Seeded = FALSE
  MaxAppends = 4
INVARIANTS CommunitySafe NoForkAfterGenesis
PROPERTIES DecisionsStay RejectionMeansProgress
CONSTRAINT OrgsBound
SYMMETRY CommunitySymmetry
CHECK_DEADLOCK FALSE
