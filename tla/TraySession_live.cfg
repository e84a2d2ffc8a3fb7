SPECIFICATION FairSpec
CONSTANTS
  Parts = {"pair", "me", "hydrate", "submit", "hangar", "touch"}
  Workers = {w1}
  MaxTokens = 1
  MaxRevoked = 1
  MaxRestarts = 1
  NoToken = NoToken
  NoWorker = NoWorker
  Empty = Empty
  Torn = Torn
PROPERTY RevokedNoticed
CHECK_DEADLOCK FALSE
