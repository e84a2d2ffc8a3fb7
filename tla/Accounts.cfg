SPECIFICATION AccountPartsSpec
CONSTANTS
  AccountIds = {i1, i2}
  Emails = {e1, e2}
  Handles = {n1}
  Requests = {r1, r2}
  MaxLinks = 2
  MaxRows = 1
  NoEmail = NoEmail
  Calls = {r1, r2}
  NumCodes = 2
  MaxSecrets = 2
  MaxBatches = 2
  MaxMagic = 1
  Users = {i1, i2}
  Codes = {e1, e2}
  Handlers = {r1, r2}
  MaxDevices = 3
  NoUser = NoUser
  NoCode = NoCode
  NoDevice = NoDevice
INVARIANTS AccountsSafe SignInSafe PairingSafe
PROPERTY OnlyCurrentCodes
SYMMETRY AccountSymmetry
CHECK_DEADLOCK FALSE
