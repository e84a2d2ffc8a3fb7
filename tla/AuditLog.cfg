SPECIFICATION FairSpec
CONSTANTS
  Writers = {w1, w2, w3}
  Payloads = {p1, p2}
  Seeded = TRUE
  MaxAppends = 3
INVARIANTS TypeOK ScanVerifies MirrorHoldsCommitted
PROPERTIES ImplementsHashChain MirrorNeverOverwrites AppendReturns
CHECK_DEADLOCK FALSE
