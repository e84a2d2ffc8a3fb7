SPECIFICATION FairSpec
CONSTANTS
  MaxEvents = 2
  BatchSize = 2
  MaxSpawns = 2
INVARIANTS TypeOK CursorOnlyPastAnswered DeliveredOrRefused NotSentToNext
PROPERTIES EventuallyAnswered
CHECK_DEADLOCK FALSE
