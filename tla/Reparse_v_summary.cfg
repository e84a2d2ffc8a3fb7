SPECIFICATION ReparseSpec
CONSTANTS
  LogLength = 5
  BurstLines = {1, 2, 3, 4, 5}
  Late = {}
  Refined = {}
  MinBurst = 3
  PageSize = 2
  MaxRowIds = 4
INVARIANT SummaryKept
CHECK_DEADLOCK FALSE
