SPECIFICATION Spec
CONSTANTS
  Parts = {"pair", "save"}
  Workers = {w1, w2}
  MaxTokens = 2
  MaxRevoked = 0
  MaxRestarts = 0
  NoToken = NoToken
  NoWorker = NoWorker
  Empty = Empty
  Torn = Torn
SYMMETRY Symmetry
INVARIANTS TypeOK ConfigIsRunning
CHECK_DEADLOCK FALSE
